---- MODULE Spec2Model ----
(***************************************************************************)
(* Model of atools' X-Plane airport writer (XpAirportWriter): the row      *)
(* interpreter that turns the lines of an apt.dat airport block into       *)
(* airport, runway, runway end, apron, parking, com, helipad, start and    *)
(* taxi path records.                                                      *)
(*                                                                         *)
(* The writer object is the record w.  Every member function of the class  *)
(* is an operator that takes the object (and the line) and returns the     *)
(* object after the call; write() and finish() are the two entry points    *)
(* and the actions of a session.  The sink (the prepared SQL statements)   *)
(* is the field w.sink: the records executed during the current call.      *)
(* The variable input records the calls made, so that a property of a row  *)
(* sequence can be stated on the state the sequence leads to.              *)
(***************************************************************************)
EXTENDS Integers, Sequences, FiniteSets, TLC

VARIABLES
  w,      \* the XpAirportWriter object, its airport index and its sink
  input   \* the calls made so far: [op |-> "write", line |-> ...] or [op |-> "finish"]

vars == <<w, input>>

(***************************************************************************)
(* Bounds of the model                                                     *)
(***************************************************************************)
\* calls of write()/finish() explored by the session specification
MaxCalls == 3
\* calls explored by the airport block specification
MaxBlockCalls == 5
\* calls explored by the pavement specification
MaxPavementCalls == 7
\* comparisons explored by the comparator specification
MaxCompareCalls == 2
\* calls explored by the parking specification
MaxParkingCalls == 4
\* calls explored by the finalize specification
MaxFinishCalls == 6
\* calls explored by the datum specification
MaxDatumCalls == 6
\* calls explored by the runway specification
MaxRunwayCalls == 5
\* calls explored by the stand specification
MaxStandCalls == 6
\* calls explored by the stand metadata specification
MaxMetadataCalls == 4
\* calls explored by the approach indicator specification
MaxVasiCalls == 4

(***************************************************************************)
(* Geometry: atools::geo::Pos and atools::geo::Rect.  Coordinates are      *)
(* integers; one unit is Pos::POS_EPSILON_1M degrees (about one metre).    *)
(***************************************************************************)
\* Pos::INVALID_VALUE, the coordinate of a default constructed Pos
INVALID_VALUE == 9999999

\* Pos::POS_EPSILON_100M in units
POS_EPSILON_100M == 100

\* 1.f / 60.f degrees (one arc minute) in units
ARC_MINUTE == 1852

Pos(lonx, laty) == [lonx |-> lonx, laty |-> laty]

InvalidPos == Pos(INVALID_VALUE, INVALID_VALUE)

PosIsValid(p) == p.lonx # INVALID_VALUE /\ p.laty # INVALID_VALUE

Rect(topLeft, bottomRight) == [topLeft |-> topLeft, bottomRight |-> bottomRight]

InvalidRect == Rect(InvalidPos, InvalidPos)

RectOfPos(p) == Rect(p, p)

RectIsValid(r) == PosIsValid(r.topLeft) /\ PosIsValid(r.bottomRight)

RectIsPoint(r) == RectIsValid(r) /\ r.topLeft = r.bottomRight

Min(a, b) == IF a < b THEN a ELSE b

Max(a, b) == IF a > b THEN a ELSE b

Abs(a) == IF a < 0 THEN -a ELSE a

\* Rect::extend: grow the rectangle to cover p; the first position makes it valid
RectExtend(r, p) ==
  IF ~PosIsValid(p) THEN r
  ELSE IF ~RectIsValid(r) THEN RectOfPos(p)
  ELSE Rect(Pos(Min(r.topLeft.lonx, p.lonx), Max(r.topLeft.laty, p.laty)),
            Pos(Max(r.bottomRight.lonx, p.lonx), Min(r.bottomRight.laty, p.laty)))

\* Rect::inflate: widen by dx to the west and east and by dy to the north and south
RectInflate(r, dx, dy) ==
  Rect(Pos(r.topLeft.lonx - dx, r.topLeft.laty + dy),
       Pos(r.bottomRight.lonx + dx, r.bottomRight.laty - dy))

RectContains(r, p) ==
  /\ RectIsValid(r) /\ PosIsValid(p)
  /\ r.topLeft.lonx <= p.lonx /\ p.lonx <= r.bottomRight.lonx
  /\ r.bottomRight.laty <= p.laty /\ p.laty <= r.topLeft.laty

RectGetCenter(r) ==
  IF ~RectIsValid(r) THEN InvalidPos
  ELSE Pos((r.topLeft.lonx + r.bottomRight.lonx) \div 2,
           (r.topLeft.laty + r.bottomRight.laty) \div 2)

\* Pos::distanceMeterTo: exact for two positions on one parallel or one meridian,
\* to the first order in the smaller offset for the others
DistanceMeterTo(p, q) ==
  LET east == Abs(p.lonx - q.lonx)
      north == Abs(p.laty - q.laty)
      long == IF east >= north THEN east ELSE north
      short == IF east >= north THEN north ELSE east
  IN IF short = 0 THEN long ELSE long + (short * short) \div (2 * long)

\* Pos::angleDegTo: exact for two positions on one parallel or one meridian,
\* to the first order in the smaller offset (57 degrees per radian) for the others
AngleDegTo(p, q) ==
  LET east == q.lonx - p.lonx
      north == q.laty - p.laty
  IN IF north = 0 \/ east = 0
     THEN IF east > 0 THEN 90
          ELSE IF east < 0 THEN 270
          ELSE IF north < 0 THEN 180
          ELSE 0
     ELSE IF Abs(east) >= Abs(north)
     THEN (IF east > 0 THEN 90 ELSE 270) - (57 * north) \div east
     ELSE ((IF north > 0 THEN 360 ELSE 180) + (57 * east) \div north) % 360

\* Pos::interpolate at fraction 0.5
InterpolateHalf(p, q) == Pos((p.lonx + q.lonx) \div 2, (p.laty + q.laty) \div 2)

\* atools::geo::normalizeCourse
normalizeCourse(c) == c % 360

\* atools::geo::opposedCourseDeg
opposedCourseDeg(c) == c + 180

\* atools::geo::meterToFeet
meterToFeet(m) == (m * 3281) \div 1000

\* QString::startsWith
StartsWith(s, prefix) == Len(s) >= Len(prefix) /\ SubSeq(s, 1, Len(prefix)) = prefix


(***************************************************************************)
(* The context of a call (XpWriterContext) and the options are fixed.      *)
(***************************************************************************)
Context == [curFileId |-> 1, isAddon |-> FALSE, is3d |-> FALSE]

\* NavDatabaseOptions::isIncludedAirportIdent: the idents the filter rejects
ExcludedIdents == {"XFLT"}

isIncludedAirportIdent(ident) == ident \notin ExcludedIdents

(***************************************************************************)
(* Bound values of the prepared statements that live across calls.  A      *)
(* null value is 0, "" or an invalid position.                             *)
(***************************************************************************)
NullAirportValues ==
  [airport_id |-> 0, file_id |-> 0, ident |-> "", name |-> "",
   is_closed |-> FALSE, is_military |-> FALSE, altitude |-> 0,
   has_tower_object |-> 0, tower_pos |-> InvalidPos, tower_altitude |-> 0,
   has_avgas |-> 0, has_jetfuel |-> 0,
   city |-> "", country |-> "", region |-> "",
   atis_frequency |-> 0, awos_frequency |-> 0, asos_frequency |-> 0,
   unicom_frequency |-> 0, tower_frequency |-> 0,
   largest_parking_ramp |-> "", largest_parking_gate |-> "",
   longest_runway_length |-> 0, longest_runway_width |-> 0,
   longest_runway_heading |-> 0, longest_runway_surface |-> "",
   num_runways |-> 0, num_runway_hard |-> 0, num_runway_soft |-> 0,
   num_runway_water |-> 0, num_runway_light |-> 0, num_helipad |-> 0,
   num_com |-> 0, num_runway_end_als |-> 0, num_starts |-> 0,
   num_runway_end_vasi |-> 0, num_apron |-> 0, num_taxi_path |-> 0,
   rating_has_tower |-> FALSE, rating_taxi_path |-> 0, rating_parking |-> 0,
   rating_apron |-> 0,
   num_parking_gate |-> 0, num_parking_ga_ramp |-> 0, num_parking_cargo |-> 0,
   num_parking_mil_cargo |-> 0, num_parking_mil_combat |-> 0,
   rect |-> InvalidRect, pos |-> InvalidPos]

NullParkingValues ==
  [parking_id |-> 0, airport_id |-> 0, pos |-> InvalidPos, heading |-> 0,
   radius |-> 0, airline_codes |-> "", name |-> "", type |-> ""]

NullApronValues ==
  [apron_id |-> 0, airport_id |-> 0, surface |-> "",
   geometry |-> [boundary |-> <<>>, holes |-> <<>>]]

\* XpGeometry: a boundary ring and the hole rings collected for one pavement
EmptyPavement == [boundary |-> <<>>, holes |-> <<>>]

(***************************************************************************)
(* XpAirportWriter::reset: every per airport member back to its default.   *)
(* The id counters, the bound values of the statements, the pavement       *)
(* geometry, the airport index and the sink are not touched.               *)
(***************************************************************************)
ResetMembers(o) ==
  [o EXCEPT
     !.airportRect = InvalidRect,
     !.longestRunwayCenterPos = InvalidPos, !.airportPos = InvalidPos,
     !.airportDatumPos = InvalidPos,
     !.longestRunwayLength = 0, !.longestRunwayWidth = 0, !.longestRunwayHeading = 0,
     !.longestRunwaySurface = "UNKNOWN",
     !.numRunway = 0, !.numSoftRunway = 0, !.numWaterRunway = 0, !.numHardRunway = 0,
     !.numHelipad = 0, !.numLightRunway = 0,
     !.numParkingGate = 0, !.numParkingGaRamp = 0, !.numParkingCargo = 0,
     !.numParkingMilCargo = 0, !.numParkingMilCombat = 0,
     !.numCom = 0, !.numStart = 0, !.numRunwayEndVasi = 0, !.numApron = 0,
     !.numTaxiPath = 0, !.numRunwayEndAls = 0, !.numParking = 0,
     !.airportClosed = FALSE, !.airportAltitude = 0, !.curHelipadStartNumber = 0,
     !.airportRowCode = "NO_ROWCODE", !.airportIcao = "",
     !.runwayEndRecords = <<>>, !.taxiNodes = {},
     !.largestParkingGate = "", !.largestParkingRamp = "",
     !.hasTower = FALSE]

\* a reset that leaves the six state flags as they are
ResetLeavesFlags(o) == ResetMembers(o)

\* a reset that also restarts the ids of the runway ends
ResetRestartsEndIds(o) ==
  [ResetMembers(o) EXCEPT
     !.curRunwayEndId = 0,
     !.writingAirport = FALSE, !.ignoringAirport = FALSE,
     !.writingPavementBoundary = FALSE, !.writingPavementHoles = FALSE,
     !.writingPavementNewHole = FALSE, !.writingStartLocation = FALSE]

\* a reset that leaves the ignoring flag as it is
ResetKeepsIgnoring(o) ==
  [ResetMembers(o) EXCEPT
     !.writingAirport = FALSE,
     !.writingPavementBoundary = FALSE, !.writingPavementHoles = FALSE,
     !.writingPavementNewHole = FALSE, !.writingStartLocation = FALSE]

reset(o) ==
  [ResetMembers(o) EXCEPT
     !.writingAirport = FALSE, !.ignoringAirport = FALSE,
     !.writingPavementBoundary = FALSE, !.writingPavementHoles = FALSE,
     !.writingPavementNewHole = FALSE, !.writingStartLocation = FALSE]

(***************************************************************************)
(* The object after construction: the constructor prepares the statements; *)
(* the members carry their default values, those reset() gives them.       *)
(***************************************************************************)
NewWriter ==
  [airportRect |-> InvalidRect,
   longestRunwayCenterPos |-> InvalidPos, airportPos |-> InvalidPos,
   airportDatumPos |-> InvalidPos,
   longestRunwayLength |-> 0, longestRunwayWidth |-> 0, longestRunwayHeading |-> 0,
   longestRunwaySurface |-> "UNKNOWN",
   numRunway |-> 0, numSoftRunway |-> 0, numWaterRunway |-> 0, numHardRunway |-> 0,
   numHelipad |-> 0, numLightRunway |-> 0,
   numParkingGate |-> 0, numParkingGaRamp |-> 0, numParkingCargo |-> 0,
   numParkingMilCargo |-> 0, numParkingMilCombat |-> 0,
   numCom |-> 0, numStart |-> 0, numRunwayEndVasi |-> 0, numApron |-> 0,
   numTaxiPath |-> 0, numRunwayEndAls |-> 0, numParking |-> 0,
   airportClosed |-> FALSE, airportAltitude |-> 0, curHelipadStartNumber |-> 0,
   airportRowCode |-> "NO_ROWCODE", airportIcao |-> "",
   runwayEndRecords |-> <<>>, taxiNodes |-> {},
   largestParkingGate |-> "", largestParkingRamp |-> "",
   hasTower |-> FALSE,
   writingAirport |-> FALSE, ignoringAirport |-> FALSE,
   writingPavementBoundary |-> FALSE, writingPavementHoles |-> FALSE,
   writingPavementNewHole |-> FALSE, writingStartLocation |-> FALSE,
   currentPavement |-> EmptyPavement,
   curAirportId |-> 0, curRunwayEndId |-> 0, curParkingId |-> 0, curApronId |-> 0,
   curTaxiPathId |-> 0, curComId |-> 0, curStartId |-> 0, curHelipadId |-> 0,
   curAirportFileId |-> 0,
   insertAirportQuery |-> NullAirportValues,
   insertParkingQuery |-> NullParkingValues,
   insertApronQuery |-> NullApronValues,
   airportIndex |-> {},
   runwayEndIndex |-> {},
   sink |-> <<>>]

\* SqlQuery::exec: one record written to a table
Exec(o, table, values) == [o EXCEPT !.sink = Append(@, [table |-> table, values |-> values])]

\* the records of one table executed during the current call, in order
Written(o, table) == SelectSeq(o.sink, LAMBDA e : e.table = table)


(***************************************************************************)
(* Strings: QString::toLower, QString::toUpper and QString::contains.      *)
(***************************************************************************)
UpperLetters == <<"A", "B", "C", "D", "E", "F", "G", "H", "I", "J", "K", "L", "M",
                  "N", "O", "P", "Q", "R", "S", "T", "U", "V", "W", "X", "Y", "Z">>

LowerLetters == <<"a", "b", "c", "d", "e", "f", "g", "h", "i", "j", "k", "l", "m",
                  "n", "o", "p", "q", "r", "s", "t", "u", "v", "w", "x", "y", "z">>

MapChar(c, from, to) ==
  IF \E i \in 1..Len(from) : from[i] = c
  THEN to[CHOOSE i \in 1..Len(from) : from[i] = c]
  ELSE c

RECURSIVE MapString(_, _, _)
MapString(s, from, to) ==
  IF Len(s) = 0 THEN ""
  ELSE MapChar(SubSeq(s, 1, 1), from, to) \o MapString(SubSeq(s, 2, Len(s)), from, to)

ToLower(s) == MapString(s, UpperLetters, LowerLetters)

ToUpper(s) == MapString(s, LowerLetters, UpperLetters)

Contains(s, sub) ==
  \E i \in 1..(Len(s) - Len(sub) + 1) : SubSeq(s, i, i + Len(sub) - 1) = sub

(***************************************************************************)
(* Airport header, finalize and the airport file record                    *)
(***************************************************************************)
writeAirportFile(o, icao, curFileId) ==
  Exec([o EXCEPT !.curAirportFileId = @ - 1], "airport_file",
       [airport_file_id |-> o.curAirportFileId - 1, file_id |-> curFileId, ident |-> icao])

\* AirportIndex::addAirport: false if the ident is already in the index
addAirportResult(o, icao) == icao \notin o.airportIndex

addAirport(o, icao) == [o EXCEPT !.airportIndex = @ \cup {icao}]

\* bindAirport, lines 1285-1289: the id, the airport file record and the index
BindAirportFile(o, line) ==
  LET o1 == [o EXCEPT !.curAirportId = @ + 1, !.airportIcao = line.icao]
      o2 == writeAirportFile(o1, line.icao, Context.curFileId)
  IN addAirport(o2, line.icao)

\* bindAirport, lines 1294-1333: the values of the header
BindAirportValues(o, line) ==
  [o EXCEPT
     !.writingAirport = TRUE,
     !.airportRowCode = line.code,
     !.airportAltitude = line.elevation,
     !.airportClosed = line.nameClosed,
     !.insertAirportQuery =
        [@ EXCEPT !.airport_id = o.curAirportId, !.file_id = Context.curFileId,
                  !.ident = line.icao, !.name = line.name,
                  !.has_tower_object = 0,
                  !.is_closed = line.nameClosed, !.is_military = line.nameMilitary,
                  !.altitude = line.elevation,
                  !.has_jetfuel = 0, !.has_avgas = 0]]

\* a header binder that writes every airport, whatever the index and the filter say
BindAirportNeverIgnores(o, line) == BindAirportValues(BindAirportFile(o, line), line)

bindAirport(o, line) ==
  IF ~addAirportResult(o, line.icao) \/ ~isIncludedAirportIdent(line.icao)
  THEN [BindAirportFile(o, line) EXCEPT !.ignoringAirport = TRUE]
  ELSE BindAirportValues(BindAirportFile(o, line), line)

\* a fallback that takes the runway center, never the datum, when there is no rectangle
ResolveWithoutRectSkipsDatum(o) ==
  IF PosIsValid(o.longestRunwayCenterPos)
  THEN [o EXCEPT !.airportRect = RectOfPos(o.longestRunwayCenterPos),
                 !.airportPos = o.longestRunwayCenterPos]
  ELSE o

\* finishAirport, lines 1404-1415: no rectangle was accumulated
ResolveWithoutRect(o) ==
  IF PosIsValid(o.airportDatumPos)
  THEN [o EXCEPT !.airportRect = RectOfPos(o.airportDatumPos),
                 !.airportPos = o.airportDatumPos]
  ELSE IF PosIsValid(o.longestRunwayCenterPos)
  THEN [o EXCEPT !.airportRect = RectOfPos(o.longestRunwayCenterPos),
                 !.airportPos = o.longestRunwayCenterPos]
  ELSE o

\* a position that is the datum wherever the datum lies
ResolveWithRectTrustsDatum(o) ==
  IF PosIsValid(o.airportDatumPos)
  THEN [o EXCEPT !.airportPos = o.airportDatumPos]
  ELSE o

\* a position that is the center of the rectangle whenever the datum is off
ResolveWithRectNeverRunway(o) ==
  IF PosIsValid(o.airportDatumPos)
  THEN IF RectContains(RectInflate(o.airportRect, POS_EPSILON_100M, POS_EPSILON_100M),
                       o.airportDatumPos)
       THEN [o EXCEPT !.airportPos = o.airportDatumPos]
       ELSE [o EXCEPT !.airportPos = RectGetCenter(o.airportRect)]
  ELSE o

\* finishAirport, lines 1419-1437: a rectangle was accumulated
ResolveWithRect(o) ==
  IF PosIsValid(o.airportDatumPos)
  THEN IF RectContains(RectInflate(o.airportRect, POS_EPSILON_100M, POS_EPSILON_100M),
                       o.airportDatumPos)
       THEN [o EXCEPT !.airportPos = o.airportDatumPos]
       ELSE IF o.numRunway = 1
            THEN [o EXCEPT !.airportPos = o.longestRunwayCenterPos]
            ELSE [o EXCEPT !.airportPos = RectGetCenter(o.airportRect)]
  ELSE o

\* a resolution that treats every airport as one with an accumulated rectangle
ResolveAlwaysWithRect(o) ==
  LET o1 == ResolveWithRect(o)
  IN IF RectIsPoint(o1.airportRect)
     THEN [o1 EXCEPT !.airportRect = RectInflate(@, ARC_MINUTE, ARC_MINUTE)]
     ELSE o1

\* finishAirport, lines 1399-1441: the bounding rectangle and the airport position
resolveBoundingRect(o) ==
  LET o1 == IF ~RectIsValid(o.airportRect) THEN ResolveWithoutRect(o) ELSE ResolveWithRect(o)
  IN IF RectIsPoint(o1.airportRect)
     THEN [o1 EXCEPT !.airportRect = RectInflate(@, ARC_MINUTE, ARC_MINUTE)]
     ELSE o1

\* finishAirport, lines 1366-1397 and 1443-1451: the values bound for the airport,
\* o the object on entry and o1 the object with the rectangle resolved
AirportValues(o, o1) ==
  LET center == IF PosIsValid(o1.airportPos) THEN o1.airportPos
                ELSE RectGetCenter(o1.airportRect)
  IN [o1.insertAirportQuery EXCEPT
        !.longest_runway_length = o.longestRunwayLength,
        !.longest_runway_width = o.longestRunwayWidth,
        !.longest_runway_heading = o.longestRunwayHeading,
        !.longest_runway_surface = o.longestRunwaySurface,
        !.num_runways = o.numSoftRunway + o.numWaterRunway + o.numHardRunway,
        !.num_runway_hard = o.numHardRunway,
        !.num_runway_soft = o.numSoftRunway,
        !.num_runway_water = o.numWaterRunway,
        !.num_runway_light = o.numLightRunway,
        !.num_helipad = o.numHelipad,
        !.num_com = o.numCom,
        !.num_runway_end_als = o.numRunwayEndAls,
        !.num_starts = o.numStart,
        !.num_runway_end_vasi = o.numRunwayEndVasi,
        !.num_apron = o.numApron,
        !.num_taxi_path = o.numTaxiPath,
        !.has_tower_object = IF o.hasTower THEN 1 ELSE 0,
        !.rating_has_tower = o.hasTower,
        !.rating_taxi_path = o.numTaxiPath,
        !.rating_parking = o.numParking,
        !.rating_apron = o.numApron,
        !.num_parking_gate = o.numParkingGate,
        !.num_parking_ga_ramp = o.numParkingGaRamp,
        !.num_parking_cargo = o.numParkingCargo,
        !.num_parking_mil_cargo = o.numParkingMilCargo,
        !.num_parking_mil_combat = o.numParkingMilCombat,
        !.rect = o1.airportRect,
        !.pos = center]

\* a finalize that writes the runway ends before the airport they belong to
FinishAirportEndsFirst(o) ==
  IF o.writingAirport /\ ~o.ignoringAirport
  THEN LET o1 == resolveBoundingRect(o)
           o2 == Exec(o1, "runway_end", o1.runwayEndRecords)
           o3 == Exec(o2, "airport", AirportValues(o, o1))
       IN reset([o3 EXCEPT !.insertAirportQuery = NullAirportValues])
  ELSE reset(o)

finishAirport(o) ==
  IF o.writingAirport /\ ~o.ignoringAirport
  THEN LET o1 == resolveBoundingRect(o)
           o2 == Exec(o1, "airport", AirportValues(o, o1))
           o3 == [o2 EXCEPT !.insertAirportQuery = NullAirportValues]
           o4 == Exec(o3, "runway_end", o3.runwayEndRecords)
       IN reset(o4)
  ELSE reset(o)

(***************************************************************************)
(* Surfaces (xpconstants.cpp).  A surface is the integer code of the row.  *)
(***************************************************************************)
surfaceToDb(value) ==
  CASE value = 0 -> "UNKNOWN"
    [] value = 15 -> "TR"
    [] value = 1 -> "A"
    [] value = 2 -> "C"
    [] value = 3 -> "G"
    [] value \in {12, 4} -> "D"
    [] value = 5 -> "GR"
    [] value = 13 -> "W"
    [] value = 14 -> "SN"
    [] OTHER -> ""

isSurfaceHard(value) == value \in {0, 15, 1, 2}

isSurfaceSoft(value) == value \in {3, 12, 4, 5, 14}

isSurfaceWater(value) == value = 13

(***************************************************************************)
(* Pavement: header, nodes and flush                                       *)
(***************************************************************************)
Node(pos, control) == [pos |-> pos, control |-> control]

\* XpGeometry::addBoundaryNode
addBoundaryNode(pavement, node) == [pavement EXCEPT !.boundary = Append(@, node)]

\* XpGeometry::addHoleNode: open a new hole ring first if newHole is set.  The holes
\* are never empty here without newHole: the first hole node follows a closing node.
addHoleNode(pavement, node, newHole) ==
  LET holes == IF newHole THEN Append(pavement.holes, <<>>) ELSE pavement.holes
  IN IF holes = <<>> THEN pavement
     ELSE [pavement EXCEPT
             !.holes = [holes EXCEPT ![Len(holes)] = Append(@, node)]]

bindPavement(o, line) ==
  IF o.ignoringAirport THEN o
  ELSE [o EXCEPT
          !.currentPavement = EmptyPavement,
          !.writingPavementBoundary = TRUE,
          !.writingPavementHoles = FALSE,
          !.writingPavementNewHole = FALSE,
          !.numApron = @ + 1,
          !.curApronId = @ + 1,
          !.insertApronQuery =
             [@ EXCEPT !.apron_id = o.curApronId + 1, !.airport_id = o.curAirportId,
                       !.surface = surfaceToDb(line.surface)]]

IsCloseCode(rowCode) == rowCode \in {"NODE_CLOSE", "NODE_AND_CONTROL_POINT_CLOSE"}

HasControlPoint(rowCode) ==
  rowCode \in {"NODE_AND_CONTROL_POINT", "NODE_AND_CONTROL_POINT_CLOSE"}

\* a node that extends the rectangle only when it joins a ring
AddPavementNodeInPolygonOnly(o, line) ==
  LET node == Node(line.pos, IF HasControlPoint(line.code) THEN line.control ELSE InvalidPos)
      o1 == [o EXCEPT !.airportRect = RectExtend(@, line.pos)]
  IN IF o.writingPavementBoundary
     THEN [o1 EXCEPT !.currentPavement = addBoundaryNode(@, node)]
     ELSE IF o.writingPavementHoles
     THEN [o1 EXCEPT !.currentPavement = addHoleNode(@, node, o.writingPavementNewHole)]
     ELSE o

\* a node that joins the last hole whatever the new hole flag says
AddPavementNodeToLastHole(o, line) ==
  LET node == Node(line.pos, IF HasControlPoint(line.code) THEN line.control ELSE InvalidPos)
      o1 == [o EXCEPT !.airportRect = RectExtend(@, line.pos)]
  IN IF o1.writingPavementBoundary
     THEN [o1 EXCEPT !.currentPavement = addBoundaryNode(@, node)]
     ELSE IF o1.writingPavementHoles
     THEN [o1 EXCEPT !.currentPavement =
                        addHoleNode(@, node, o1.currentPavement.holes = <<>>)]
     ELSE o1

\* bindPavementNode, lines 484-495: the node extends the rectangle and joins its ring
AddPavementNode(o, line) ==
  LET node == Node(line.pos, IF HasControlPoint(line.code) THEN line.control ELSE InvalidPos)
      o1 == [o EXCEPT !.airportRect = RectExtend(@, line.pos)]
  IN IF o1.writingPavementBoundary
     THEN [o1 EXCEPT !.currentPavement = addBoundaryNode(@, node)]
     ELSE IF o1.writingPavementHoles
     THEN [o1 EXCEPT !.currentPavement = addHoleNode(@, node, o1.writingPavementNewHole)]
     ELSE o1

\* a closing node that begins the holes phase without ending the boundary phase
ClosePavementRingKeepsBoundary(o, line) ==
  IF IsCloseCode(line.code) /\ (o.writingPavementBoundary \/ o.writingPavementHoles)
  THEN [o EXCEPT !.writingPavementHoles = TRUE, !.writingPavementNewHole = TRUE]
  ELSE o

\* a closing node that sets the new hole flag but never leaves the boundary phase
ClosePavementRingStaysBoundary(o, line) ==
  IF IsCloseCode(line.code) /\ o.writingPavementHoles
  THEN [o EXCEPT !.writingPavementNewHole = TRUE]
  ELSE o

\* bindPavementNode, lines 499-510: a closing node ends its ring
ClosePavementRing(o, line) ==
  IF IsCloseCode(line.code)
  THEN LET o1 == IF o.writingPavementBoundary
                 THEN [o EXCEPT !.writingPavementBoundary = FALSE,
                                !.writingPavementHoles = TRUE]
                 ELSE o
       IN IF o1.writingPavementHoles
          THEN [o1 EXCEPT !.writingPavementNewHole = TRUE]
          ELSE o1
  ELSE o

\* a node binder that leaves the new hole flag set once a ring was closed
BindPavementNodeKeepsNewHole(o, line) ==
  IF o.ignoringAirport THEN o
  ELSE ClosePavementRing(AddPavementNode(o, line), line)

bindPavementNode(o, line) ==
  IF o.ignoringAirport THEN o
  ELSE ClosePavementRing([AddPavementNode(o, line) EXCEPT !.writingPavementNewHole = FALSE],
                         line)

finishPavement(o) ==
  IF o.ignoringAirport THEN o
  ELSE IF o.writingPavementBoundary \/ o.writingPavementHoles
  THEN LET values == [o.insertApronQuery EXCEPT !.geometry = o.currentPavement]
           o1 == Exec([o EXCEPT !.insertApronQuery = values], "apron", values)
       IN [o1 EXCEPT !.writingPavementBoundary = FALSE,
                     !.writingPavementHoles = FALSE,
                     !.writingPavementNewHole = FALSE]
  ELSE o

(***************************************************************************)
(* Parking: gate and ramp comparators                                      *)
(***************************************************************************)
\* a comparator without the branch for a second gate that is the smallest
CompareGateSkipsSecondSmall(gate1, gate2) ==
  IF gate1 # gate2
  THEN IF gate1 = "GH" THEN 1
       ELSE IF gate2 = "GH" THEN -1
       ELSE IF gate1 = "GS" THEN -1
       ELSE 0
  ELSE 0

compareGate(gate1, gate2) ==
  IF gate1 # gate2
  THEN IF gate1 = "GH" THEN 1
       ELSE IF gate2 = "GH" THEN -1
       ELSE IF gate1 = "GS" THEN -1
       ELSE IF gate2 = "GS" THEN 1
       ELSE 0
  ELSE 0

compareRamp(ramp1, ramp2) ==
  IF ramp1 # ramp2
  THEN IF ramp1 = "RGAL" THEN 1
       ELSE IF ramp2 = "RGAL" THEN -1
       ELSE IF ramp1 = "RGAS" THEN -1
       ELSE IF ramp2 = "RGAS" THEN 1
       ELSE 0
  ELSE 0


(***************************************************************************)
(* Parking: startup location (1300), its metadata (1301), start (15)       *)
(***************************************************************************)
finishStartupLocation(o) ==
  IF o.writingStartLocation
  THEN
    LET type == o.insertParkingQuery.type
        isGate == StartsWith(type, "G")
        isRamp == StartsWith(type, "RGA")
        largestGate ==
          IF isGate /\ (o.largestParkingGate = "" \/ compareGate(o.largestParkingGate, type) > 0)
          THEN type ELSE o.largestParkingGate
        largestRamp ==
          IF isRamp /\ (o.largestParkingRamp = "" \/ compareRamp(o.largestParkingRamp, type) > 0)
          THEN type ELSE o.largestParkingRamp
        o1 == [o EXCEPT
                 !.numParkingGate = IF isGate THEN @ + 1 ELSE @,
                 !.largestParkingGate = largestGate,
                 !.numParkingGaRamp = IF isRamp THEN @ + 1 ELSE @,
                 !.largestParkingRamp = largestRamp,
                 !.numParkingCargo = IF StartsWith(type, "RC") THEN @ + 1 ELSE @,
                 !.numParkingMilCombat = IF StartsWith(type, "RMC") THEN @ + 1 ELSE @,
                 !.numParkingMilCargo = IF StartsWith(type, "RMC") THEN @ + 1 ELSE @,
                 !.insertAirportQuery =
                    [@ EXCEPT !.largest_parking_ramp = largestRamp,
                              !.largest_parking_gate = largestGate]]
        o2 == Exec(o1, "parking", o1.insertParkingQuery)
    IN [o2 EXCEPT !.insertParkingQuery = NullParkingValues,
                  !.writingStartLocation = FALSE]
  ELSE o

\* SqlQuery::bindValue on a placeholder that holds old: the new value replaces it
BindValue(old, new) == new

\* fuel flags for which the word fuel alone means jet fuel only
FuelOfNameJetOnly(name) ==
  LET lower == ToLower(name)
      gas == Contains(lower, "avgas") \/ Contains(lower, "mogas") \/ Contains(lower, "gas-station")
      fuel == Contains(lower, "fuel")
  IN [hasFuel |-> gas \/ fuel, avgas |-> gas, jetfuel |-> fuel]

\* the name decides the fuel flags: <<hasFuel, avgas bound, jetfuel bound>>
FuelOfName(name) ==
  LET lower == ToLower(name)
      gas == Contains(lower, "avgas") \/ Contains(lower, "mogas") \/ Contains(lower, "gas-station")
      jet == Contains(lower, "jetfuel")
      fuel == Contains(lower, "fuel")
  IN [hasFuel |-> gas \/ jet \/ fuel, avgas |-> gas \/ fuel, jetfuel |-> jet \/ fuel]

\* writeStartupLocation, lines 657-673: the type bound for the stand
StartupLocationType(hasFuel, type) ==
  IF hasFuel THEN "FUEL"
  ELSE LET bound == IF type = "gate" THEN "G"
                    ELSE IF type = "hangar" THEN "H"
                    ELSE IF type = "tie-down" THEN "T"
                    ELSE ""
       \* line 672, "Need at least an empty string bound", runs after every branch
       IN BindValue(bound, "")

writeStartupLocation(o, line) ==
  IF o.ignoringAirport THEN o
  ELSE
    LET fuel == FuelOfName(line.name)
    IN [o EXCEPT
          !.writingStartLocation = TRUE,
          !.numParking = @ + 1,
          !.curParkingId = @ + 1,
          !.airportRect = RectExtend(@, line.pos),
          !.insertParkingQuery =
             [@ EXCEPT !.parking_id = o.curParkingId + 1, !.airport_id = o.curAirportId,
                       !.pos = line.pos, !.heading = line.heading,
                       !.radius = 50, !.airline_codes = "", !.name = line.name,
                       !.type = StartupLocationType(fuel.hasFuel, line.type)],
          !.insertAirportQuery =
             [@ EXCEPT !.has_avgas = IF fuel.avgas THEN 1 ELSE @,
                       !.has_jetfuel = IF fuel.jetfuel THEN 1 ELSE @]]

\* a width table with the radii of C and D exchanged
WidthCodeRadiusSwapped(widthCode) ==
  CASE widthCode = "A" -> 25
    [] widthCode = "B" -> 40
    [] widthCode = "C" -> 80
    [] widthCode = "D" -> 60
    [] widthCode = "E" -> 100
    [] widthCode = "F" -> 130
    [] OTHER -> 10

\* writeStartupLocationMetadata, lines 713-748: ICAO width code to radius
WidthCodeRadius(widthCode) ==
  CASE widthCode = "A" -> 25
    [] widthCode = "B" -> 40
    [] widthCode = "C" -> 60
    [] widthCode = "D" -> 80
    [] widthCode = "E" -> 100
    [] widthCode = "F" -> 130
    [] OTHER -> 10

\* writeStartupLocationMetadata, lines 713-748: ICAO width code to size letter
WidthCodeSizeType(widthCode) ==
  CASE widthCode = "A" -> "S"
    [] widthCode = "B" -> "S"
    [] widthCode = "C" -> "M"
    [] widthCode = "D" -> "M"
    [] widthCode = "E" -> "H"
    [] widthCode = "F" -> "H"
    [] OTHER -> "S"

\* an operation type table without the military ramp
OperationTypeNoMilitary(type, ops) ==
  IF ops = "general_aviation" THEN "RGA"
  ELSE IF ops = "cargo" THEN "RC"
  ELSE type

\* writeStartupLocationMetadata, lines 697-706: the type built from the operation type
OperationType(type, ops) ==
  IF ops = "general_aviation" THEN "RGA"
  ELSE IF ops = "cargo" THEN "RC"
  ELSE IF ops = "military" THEN "RM"
  ELSE type

writeStartupLocationMetadata(o, line) ==
  IF o.ignoringAirport THEN o
  ELSE
    LET isFuel == o.insertParkingQuery.type = "FUEL"
        type1 == IF isFuel THEN o.insertParkingQuery.type
                 ELSE OperationType(o.insertParkingQuery.type, line.optype)
        airlines == IF line.hasAirline THEN ToUpper(line.airline)
                    ELSE o.insertParkingQuery.airline_codes
        type2 == IF ~isFuel /\ (type1 = "G" \/ type1 = "RGA")
                 THEN type1 \o WidthCodeSizeType(line.width)
                 ELSE type1
    IN [o EXCEPT !.insertParkingQuery =
                    [@ EXCEPT !.type = type2, !.airline_codes = airlines,
                              !.radius = WidthCodeRadius(line.width)]]

\* writeStartup, lines 827-843: the stand of a plain start row is bound
BindStartup(o, line) ==
  [o EXCEPT
     !.writingStartLocation = TRUE,
     !.numParking = @ + 1,
     !.curParkingId = @ + 1,
     !.airportRect = RectExtend(@, line.pos),
     !.insertParkingQuery =
        [@ EXCEPT !.parking_id = o.curParkingId + 1,
                  !.airport_id = o.curAirportId,
                  !.pos = line.pos, !.heading = line.heading,
                  !.radius = 50, !.airline_codes = "", !.name = line.name,
                  !.type = ""]]

\* a plain start row that leaves its stand open for the rows that follow
WriteStartupLeavesOpen(o, line) ==
  IF o.ignoringAirport THEN o ELSE BindStartup(o, line)

writeStartup(o, line) ==
  IF o.ignoringAirport THEN o ELSE finishStartupLocation(BindStartup(o, line))


(***************************************************************************)
(* Runways and VASI                                                        *)
(***************************************************************************)
Digits == <<"0", "1", "2", "3", "4", "5", "6", "7", "8", "9">>

IsDigit(c) == \E i \in 1..10 : Digits[i] = c

DigitValue(c) == (CHOOSE i \in 1..10 : Digits[i] = c) - 1

RECURSIVE ParseDigits(_, _)
ParseDigits(s, acc) ==
  IF Len(s) = 0 THEN acc
  ELSE ParseDigits(SubSeq(s, 2, Len(s)), acc * 10 + DigitValue(SubSeq(s, 1, 1)))

\* QString::toInt: 0 unless the whole string is a decimal number
ToInt(s) ==
  IF Len(s) > 0 /\ \A i \in 1..Len(s) : IsDigit(SubSeq(s, i, i))
  THEN ParseDigits(s, 0) ELSE 0

\* markingToDb: the runway marking flags of a marking code
markingToDb(value) ==
  CASE value = 1 -> {"EDGES", "DASHES", "IDENT"}
    [] value = 2 -> {"EDGES", "THRESHOLD", "FIXED_DISTANCE", "TOUCHDOWN", "DASHES", "IDENT",
                     "EDGE_PAVEMENT"}
    [] value = 3 -> {"EDGES", "THRESHOLD", "FIXED_DISTANCE", "TOUCHDOWN", "DASHES", "IDENT",
                     "PRECISION", "EDGE_PAVEMENT"}
    [] value = 4 -> {"EDGES", "ALTERNATE_THRESHOLD", "ALTERNATE_FIXEDDISTANCE",
                     "ALTERNATE_TOUCHDOWN", "DASHES", "IDENT", "EDGE_PAVEMENT"}
    [] value = 5 -> {"EDGES", "ALTERNATE_THRESHOLD", "ALTERNATE_FIXEDDISTANCE",
                     "ALTERNATE_TOUCHDOWN", "DASHES", "IDENT", "ALTERNATE_PRECISION",
                     "EDGE_PAVEMENT"}
    [] OTHER -> {}

alsToDb(value) ==
  CASE value = 1 -> "ALSF1"
    [] value = 2 -> "ALSF2"
    [] value = 3 -> "CALVERT"
    [] value = 4 -> "CALVERT2"
    [] value = 5 -> "SSALR"
    [] value = 6 -> "SSALF"
    [] value = 7 -> "SALS"
    [] value = 8 -> "MALSR"
    [] value = 9 -> "MALSF"
    [] value = 10 -> "MALS"
    [] value = 11 -> "ODALS"
    [] value = 12 -> "RAIL"
    [] OTHER -> ""

approachIndicatorToDb(value) ==
  CASE value = 1 -> "VASI22"
    [] value \in {2, 3, 4} -> "PAPI4"
    [] value = 5 -> "TRICOLOR"
    [] value = 6 -> "GUARD"
    [] OTHER -> ""

\* one runway end record (bindRunway, lines 1146-1244)
RunwayEnd(o, line, end, endType, id, heading, pos) ==
  LET land == line.code = "LAND_RUNWAY"
  IN [runway_end_id |-> id, name |-> end.number, end_type |-> endType,
      offset_threshold |-> IF land THEN meterToFeet(end.displaced) ELSE 0,
      blast_pad |-> IF land THEN meterToFeet(end.blastpad) ELSE 0,
      app_light_system_type |-> IF land THEN alsToDb(end.als) ELSE "",
      has_reils |-> IF land /\ end.reil > 0 THEN 1 ELSE 0,
      has_touchdown_lights |-> IF land THEN end.tdz ELSE 0,
      has_closed_markings |-> o.airportClosed,
      heading |-> heading, pos |-> pos,
      left_vasi_type |-> "", left_vasi_pitch |-> 0,
      right_vasi_type |-> "", right_vasi_pitch |-> 0]

\* a secondary heading that is not normalized
SecondaryHeadingOpposedOnly(primaryHeading) == opposedCourseDeg(primaryHeading)

\* bindRunway, line 1057: the heading of the secondary end
SecondaryHeading(primaryHeading) == normalizeCourse(opposedCourseDeg(primaryHeading))

\* a test that lets a runway of equal length replace the longest runway
IsLongestRunwayOrEqual(lengthFeet, longestRunwayLength) == lengthFeet >= longestRunwayLength

\* bindRunway, line 1076: the runway replaces the longest runway
IsLongestRunway(lengthFeet, longestRunwayLength) == lengthFeet > longestRunwayLength

\* bindRunway, lines 1017-1275: the runway, its two ends and its two starts
BindRunwayRecords(o, line) ==
    LET land == line.code = "LAND_RUNWAY"
        primaryPos == line.primary.pos
        secondaryPos == line.secondary.pos
        primaryName == line.primary.number
        secondaryName == line.secondary.number
        surface == IF land THEN line.surface ELSE 13
        primRwEndId == o.curRunwayEndId + 1
        secRwEndId == o.curRunwayEndId + 2
        lengthMeter == DistanceMeterTo(primaryPos, secondaryPos)
        lengthFeet == meterToFeet(lengthMeter)
        widthFeet == meterToFeet(line.width)
        primaryHeading == AngleDegTo(primaryPos, secondaryPos)
        secondaryHeading == SecondaryHeading(primaryHeading)
        center == InterpolateHalf(primaryPos, secondaryPos)
        surfaceStr == surfaceToDb(surface)
        longer == IsLongestRunway(lengthFeet, o.longestRunwayLength)
        \* field 3: the shoulder of a land row, the primary number of a water row
        shoulder == IF land THEN line.shoulder ELSE ToInt(line.primary.number)
        edgeLight == CASE line.edgeLights = 1 -> "L"
                       [] line.edgeLights = 2 -> "M"
                       [] line.edgeLights = 3 -> "H"
                       [] OTHER -> ""
        runway ==
          [runway_id |-> primRwEndId, airport_id |-> o.curAirportId,
           primary_end_id |-> primRwEndId, secondary_end_id |-> secRwEndId,
           surface |-> surfaceStr,
           shoulder |-> IF shoulder = 1 THEN surfaceToDb(1)
                        ELSE IF shoulder = 2 THEN surfaceToDb(2) ELSE "",
           length |-> lengthFeet, width |-> widthFeet, heading |-> primaryHeading,
           marking_flags |-> IF land THEN markingToDb(line.primary.markings)
                                          \cup markingToDb(line.secondary.markings)
                             ELSE {},
           edge_light |-> IF land THEN edgeLight ELSE "",
           center_light |-> IF land /\ line.centerLights = 1 THEN "M" ELSE "",
           primary_pos |-> primaryPos, secondary_pos |-> secondaryPos,
           altitude |-> o.airportAltitude, pos |-> center]
        start(id, endId, name, pos, heading) ==
          [start_id |-> id, airport_id |-> o.curAirportId, runway_end_id |-> endId,
           number |-> 0, runway_name |-> name, pos |-> pos, type |-> "R",
           altitude |-> o.airportAltitude, heading |-> heading]
        numAls == (IF land /\ alsToDb(line.primary.als) # "" THEN 1 ELSE 0)
                  + (IF land /\ alsToDb(line.secondary.als) # "" THEN 1 ELSE 0)
        o1 == [o EXCEPT
                 !.curRunwayEndId = @ + 2,
                 !.runwayEndIndex = @ \cup {<<o.airportIcao, primaryName, primRwEndId>>,
                                            <<o.airportIcao, secondaryName, secRwEndId>>},
                 !.airportRect = RectExtend(RectExtend(@, primaryPos), secondaryPos),
                 !.numRunway = @ + 1,
                 !.numHardRunway = IF isSurfaceHard(surface) THEN @ + 1 ELSE @,
                 !.numSoftRunway = IF isSurfaceSoft(surface) THEN @ + 1 ELSE @,
                 !.numWaterRunway = IF isSurfaceWater(surface) THEN @ + 1 ELSE @,
                 !.longestRunwayLength = IF longer THEN lengthFeet ELSE @,
                 !.longestRunwayWidth = IF longer THEN widthFeet ELSE @,
                 !.longestRunwayHeading = IF longer THEN primaryHeading ELSE @,
                 !.longestRunwaySurface = IF longer THEN surfaceStr ELSE @,
                 !.longestRunwayCenterPos = IF longer THEN center ELSE @,
                 !.numLightRunway =
                    IF land /\ (line.edgeLights > 0 \/ line.centerLights > 0) THEN @ + 1 ELSE @,
                 !.numRunwayEndAls = @ + numAls,
                 !.runwayEndRecords =
                    Append(Append(@, RunwayEnd(o, line, line.primary, "P", primRwEndId,
                                               primaryHeading, primaryPos)),
                           RunwayEnd(o, line, line.secondary, "S", secRwEndId,
                                     secondaryHeading, secondaryPos)),
                 !.numStart = @ + 2,
                 !.curStartId = @ + 2]
        o2 == Exec(o1, "runway", runway)
        o3 == Exec(o2, "start", start(o.curStartId + 1, primRwEndId, primaryName,
                                      primaryPos, primaryHeading))
    IN Exec(o3, "start", start(o.curStartId + 2, secRwEndId, secondaryName,
                               secondaryPos, secondaryHeading))

\* a runway binder without the check of the ignoring state
BindRunwayUnguarded(o, line) == BindRunwayRecords(o, line)

bindRunway(o, line) ==
  IF o.ignoringAirport THEN o ELSE BindRunwayRecords(o, line)

\* bindVasi, lines 548-559: the first end with the runway name, 0 if none
FindEndByName(records, rwName) ==
  IF rwName # "" /\ \E i \in 1..Len(records) : records[i].name = rwName
  THEN CHOOSE i \in 1..Len(records) :
         /\ records[i].name = rwName
         /\ \A j \in 1..(i - 1) : records[j].name # rwName
  ELSE 0

\* a loop over the ends that keeps the first end within 10 degrees
RECURSIVE FindEndByAngleFirstFit(_, _, _, _)
FindEndByAngleFirstFit(records, orientation, i, best) ==
  IF i > Len(records) THEN best[1]
  ELSE IF best[1] = 0 /\ Abs(records[i].heading - orientation) < 10
  THEN FindEndByAngleFirstFit(records, orientation, i + 1, <<i, records[i].heading>>)
  ELSE FindEndByAngleFirstFit(records, orientation, i + 1, best)

\* bindVasi, lines 561-577: the loop over the ends, best = <<index, bestAngle>>
RECURSIVE FindEndByAngle(_, _, _, _)
FindEndByAngle(records, orientation, i, best) ==
  IF i > Len(records) THEN best[1]
  ELSE LET diff == Abs(records[i].heading - orientation)
       IN IF diff < 10 /\ diff < Abs(best[2] - orientation)
          THEN FindEndByAngle(records, orientation, i + 1, <<i, records[i].heading>>)
          ELSE FindEndByAngle(records, orientation, i + 1, best)

\* an indicator set on the left side only
SetVasiLeftOnly(rec, line) ==
  [rec EXCEPT !.left_vasi_type = approachIndicatorToDb(line.type),
              !.left_vasi_pitch = line.angle]

\* bindVasi, lines 581-584: the indicator of the end
SetVasi(rec, line) ==
  [rec EXCEPT !.left_vasi_type = approachIndicatorToDb(line.type),
              !.left_vasi_pitch = line.angle,
              !.right_vasi_type = "UNKN",
              !.right_vasi_pitch = 0]

bindVasi(o, line) ==
  IF o.ignoringAirport THEN o
  ELSE IF line.type = 0 \/ line.type = 6 THEN o
  ELSE
    LET byName == FindEndByName(o.runwayEndRecords, line.runway)
        bestRunwayEnd ==
          IF byName # 0 THEN byName
          ELSE FindEndByAngle(o.runwayEndRecords, line.orient, 1, <<0, 100000000>>)
    IN IF bestRunwayEnd # 0
       THEN [o EXCEPT
               !.numRunwayEndVasi = @ + 1,
               !.runwayEndRecords[bestRunwayEnd] = SetVasi(@, line)]
       ELSE o


(***************************************************************************)
(* Viewpoint, taxi network, com, fuel trucks, metadata, helipad            *)
(***************************************************************************)
bindViewpoint(o, line) ==
  IF o.ignoringAirport THEN o
  ELSE [o EXCEPT
          !.airportRect = RectExtend(@, line.pos),
          !.insertAirportQuery =
             [@ EXCEPT !.tower_pos = line.pos,
                       !.tower_altitude = o.airportAltitude + line.height,
                       !.has_tower_object = 1],
          !.hasTower = TRUE]

\* QHash::insert: the value of an id already present is replaced
bindTaxiNode(o, line) ==
  IF o.ignoringAirport THEN o
  ELSE [o EXCEPT !.taxiNodes =
                    {n \in @ : n.id # line.id} \cup {[id |-> line.id, pos |-> line.pos]}]

\* QHash::value: a default constructed Pos for an id that is not in the table
TaxiNodeValue(taxiNodes, id) ==
  IF \E n \in taxiNodes : n.id = id
  THEN (CHOOSE n \in taxiNodes : n.id = id).pos
  ELSE InvalidPos

\* a list of garbage names that lacks the ramp names
GarbageTaxiNamesWithoutRamp == {"*", "**", "+", "-", ".", "TAXIWAY", "UNNAMED", "TWY", "TAXI"}

\* bindTaxiEdge, lines 411-424: the names that are filtered out
GarbageTaxiNames ==
  {"*", "**", "+", "-", ".", "TAXIWAY", "TAXI_TO_RAMP", "TAXI_RAMP", "TAXY_RAMP",
   "UNNAMED", "TWY", "TAXI"}

bindTaxiEdge(o, line) ==
  IF o.ignoringAirport THEN o
  ELSE IF line.type = "runway" THEN o
  ELSE
    LET start == TaxiNodeValue(o.taxiNodes, line.start)
        end == TaxiNodeValue(o.taxiNodes, line.end)
        name == IF ToUpper(line.name) \in GarbageTaxiNames THEN "" ELSE line.name
        o1 == [o EXCEPT
                 !.airportRect = RectExtend(RectExtend(@, start), end),
                 !.numTaxiPath = @ + 1,
                 !.curTaxiPathId = @ + 1]
    IN Exec(o1, "taxi_path",
            [taxi_path_id |-> o.curTaxiPathId + 1, airport_id |-> o.curAirportId,
             name |-> name, type |-> "T", start_pos |-> start, end_pos |-> end])

\* a weather type that falls back to AWOS for a name without a keyword
WeatherTypeAwosFallback(name) ==
  LET lower == ToLower(name)
  IN IF Contains(lower, "atis") THEN "ATIS"
     ELSE IF Contains(lower, "asos") THEN "ASOS"
     ELSE "AWOS"

\* writeCom, lines 868-887: the type of a weather frequency by its name
WeatherType(name) ==
  LET lower == ToLower(name)
  IN IF Contains(lower, "atis") THEN "ATIS"
     ELSE IF Contains(lower, "awos") THEN "AWOS"
     ELSE IF Contains(lower, "asos") THEN "ASOS"
     ELSE "ATIS"

writeCom(o, line) ==
  IF o.ignoringAirport THEN o
  ELSE
    LET frequency == line.frequency * 10
        weather == WeatherType(line.name)
        type == CASE line.code = "COM_WEATHER" -> weather
                  [] line.code = "COM_UNICOM" -> "UC"
                  [] line.code = "COM_TOWER" -> "T"
                  [] line.code = "COM_CLEARANCE" -> "C"
                  [] line.code = "COM_GROUND" -> "G"
                  [] line.code = "COM_APPROACH" -> "A"
                  [] line.code = "COM_DEPARTURE" -> "D"
                  [] OTHER -> "NONE"
        o1 == [o EXCEPT
                 !.numCom = @ + 1,
                 !.curComId = @ + 1,
                 !.insertAirportQuery =
                    [@ EXCEPT
                       !.atis_frequency =
                          IF line.code = "COM_WEATHER" /\ weather = "ATIS" THEN frequency ELSE @,
                       !.awos_frequency =
                          IF line.code = "COM_WEATHER" /\ weather = "AWOS" THEN frequency ELSE @,
                       !.asos_frequency =
                          IF line.code = "COM_WEATHER" /\ weather = "ASOS" THEN frequency ELSE @,
                       !.unicom_frequency =
                          IF line.code = "COM_UNICOM" THEN frequency ELSE @,
                       !.tower_frequency =
                          IF line.code = "COM_TOWER" THEN frequency ELSE @]]
    IN Exec(o1, "com",
            [com_id |-> o.curComId + 1, airport_id |-> o.curAirportId,
             name |-> line.name, frequency |-> frequency, type |-> type])

bindFuel(o, line) ==
  IF o.ignoringAirport THEN o
  ELSE [o EXCEPT !.insertAirportQuery =
                    [@ EXCEPT
                       !.has_avgas = IF Contains(line.type, "fuel_props") THEN 1 ELSE @,
                       !.has_jetfuel =
                          IF Contains(line.type, "fuel_liners") \/ Contains(line.type, "fuel_jets")
                          THEN 1 ELSE @]]

\* line.number is value.toFloat() in units
bindMetadata(o, line) ==
  IF o.ignoringAirport THEN o
  ELSE
    LET key == ToLower(line.key)
    IN IF key = "city"
       THEN [o EXCEPT !.insertAirportQuery.city = line.value]
       ELSE IF key = "country"
       THEN [o EXCEPT !.insertAirportQuery.country = line.value]
       ELSE IF StartsWith(key, "region") /\ line.value # ""
       THEN [o EXCEPT !.insertAirportQuery.region = line.value]
       ELSE IF key = "datum_lat" /\ ToInt(line.value) # 0
       THEN [o EXCEPT !.airportDatumPos.laty = ToInt(line.value)]
       ELSE IF key = "datum_lon" /\ ToInt(line.value) # 0
       THEN [o EXCEPT !.airportDatumPos.lonx = ToInt(line.value)]
       ELSE o

\* line.latyInt is at(line, 2).toInt(): the helipad reads its surface at rw::SURFACE
writeHelipad(o, line) ==
  IF o.ignoringAirport THEN o
  ELSE
    LET o1 == [o EXCEPT
                 !.numStart = @ + 1, !.curStartId = @ + 1,
                 !.curHelipadStartNumber = @ + 1,
                 !.numHelipad = @ + 1, !.curHelipadId = @ + 1,
                 !.airportRect = RectExtend(@, line.pos)]
        o2 == Exec(o1, "start",
                   [start_id |-> o1.curStartId, airport_id |-> o.curAirportId,
                    runway_end_id |-> 0, number |-> o1.curHelipadStartNumber,
                    runway_name |-> "", pos |-> line.pos, type |-> "H",
                    altitude |-> o.airportAltitude, heading |-> line.orientation])
    IN Exec(o2, "helipad",
            [helipad_id |-> o1.curHelipadId, airport_id |-> o.curAirportId,
             start_id |-> o1.curStartId, surface |-> surfaceToDb(line.latyInt),
             length |-> meterToFeet(line.length), width |-> meterToFeet(line.width),
             heading |-> line.orientation, type |-> "H",
             is_closed |-> o.airportClosed, altitude |-> o.airportAltitude,
             pos |-> line.pos])

(***************************************************************************)
(* The two entry points                                                    *)
(***************************************************************************)
PavementCodes ==
  {"PAVEMENT_HEADER", "NODE", "NODE_AND_CONTROL_POINT", "NODE_CLOSE",
   "NODE_AND_CONTROL_POINT_CLOSE"}

HeaderCodes == {"LAND_AIRPORT_HEADER", "SEAPLANE_BASE_HEADER", "HELIPORT_HEADER"}

ComCodes ==
  {"COM_WEATHER", "COM_UNICOM", "COM_CLEARANCE", "COM_GROUND", "COM_TOWER",
   "COM_APPROACH", "COM_DEPARTURE"}

\* a write() that flushes the polygon before a row but leaves the stand open
FlushBeforeRowKeepsStand(o, rowCode) ==
  IF rowCode \notin PavementCodes THEN finishPavement(o) ELSE o

\* a write() that flushes nothing before a stand metadata row
FlushBeforeRowSparesPolygon(o, rowCode) ==
  IF rowCode = "RAMP_START_METADATA" THEN o
  ELSE finishStartupLocation(IF rowCode \notin PavementCodes THEN finishPavement(o) ELSE o)

\* write(), lines 267-272: what is flushed before the row is dispatched
FlushBeforeRow(o, rowCode) ==
  LET o1 == IF rowCode \notin PavementCodes THEN finishPavement(o) ELSE o
  IN IF rowCode # "RAMP_START_METADATA" THEN finishStartupLocation(o1) ELSE o1

\* write(), lines 274-371: the switch
Dispatch(o, line) ==
  LET rowCode == line.code
  IN CASE rowCode \in HeaderCodes -> bindAirport(finishAirport(o), line)
       [] rowCode \in {"LAND_RUNWAY", "WATER_RUNWAY"} -> bindRunway(o, line)
       [] rowCode = "HELIPAD" -> writeHelipad(o, line)
       [] rowCode = "PAVEMENT_HEADER" -> bindPavement(finishPavement(o), line)
       [] rowCode \in PavementCodes \ {"PAVEMENT_HEADER"} -> bindPavementNode(o, line)
       [] rowCode = "AIRPORT_VIEWPOINT" -> bindViewpoint(o, line)
       [] rowCode = "AEROPLANE_STARTUP_LOCATION" -> writeStartup(o, line)
       [] rowCode = "LIGHTING_OBJECT" -> bindVasi(o, line)
       [] rowCode = "AIRPORT_LOCATION" -> writeStartupLocation(finishStartupLocation(o), line)
       [] rowCode = "RAMP_START_METADATA" -> writeStartupLocationMetadata(o, line)
       [] rowCode = "TAXI_ROUTE_NETWORK_NODE" -> bindTaxiNode(o, line)
       [] rowCode = "TAXI_ROUTE_NETWORK_EDGE" -> bindTaxiEdge(o, line)
       [] rowCode = "METADATA_RECORDS" -> bindMetadata(o, line)
       [] rowCode \in {"TRUCK_PARKING_LOCATION", "TRUCK_DESTINATION_LOCATION"} -> bindFuel(o, line)
       [] rowCode \in ComCodes -> writeCom(o, line)
       [] OTHER -> o

\* the sink holds the records of the current call only
NewCall(o) == [o EXCEPT !.sink = <<>>]

write(o, line) == Dispatch(FlushBeforeRow(NewCall(o), line.code), line)

\* a finish() that finalizes the airport without flushing the stand
FinishDropsStand(o) == finishAirport(finishPavement(NewCall(o)))

finish(o) == finishAirport(finishStartupLocation(finishPavement(NewCall(o))))


(***************************************************************************)
(* The lines fed to write(): one record per line, its fields named as the  *)
(* field index enumerations name them.  Positions are in units.            *)
(***************************************************************************)
HeaderRows ==
  {[code |-> "LAND_AIRPORT_HEADER", elevation |-> 433, icao |-> "KSEA",
    name |-> "Seattle Tacoma Intl", nameClosed |-> FALSE, nameMilitary |-> FALSE],
   [code |-> "SEAPLANE_BASE_HEADER", elevation |-> 0, icao |-> "W55",
    name |-> "Kenmore Air Harbor", nameClosed |-> TRUE, nameMilitary |-> FALSE],
   [code |-> "HELIPORT_HEADER", elevation |-> 20, icao |-> "XFLT",
    name |-> "Filtered Heliport", nameClosed |-> FALSE, nameMilitary |-> FALSE]}

RunwayEndFields(number, pos, als) ==
  [number |-> number, pos |-> pos, displaced |-> 0, blastpad |-> 60,
   markings |-> 3, als |-> als, tdz |-> 0, reil |-> 1]

\* 09/27: asphalt, 30 m wide, 1000 m due east; 18/36: grass, 2000 m due south
LandRunwayRows ==
  {[code |-> "LAND_RUNWAY", width |-> 30, surface |-> 1, shoulder |-> 0,
    centerLights |-> 1, edgeLights |-> 2,
    primary |-> RunwayEndFields("09", Pos(4000, 5000), 1),
    secondary |-> RunwayEndFields("27", Pos(5000, 5000), 0)],
   [code |-> "LAND_RUNWAY", width |-> 45, surface |-> 3, shoulder |-> 2,
    centerLights |-> 0, edgeLights |-> 0,
    primary |-> RunwayEndFields("18", Pos(6000, 7000), 0),
    secondary |-> RunwayEndFields("36", Pos(6000, 5000), 0)]}

WaterRunwayRows ==
  {[code |-> "WATER_RUNWAY", width |-> 60,
    primary |-> [number |-> "01", pos |-> Pos(2000, 3000)],
    secondary |-> [number |-> "19", pos |-> Pos(2000, 4000)]]}

RunwayRows == LandRunwayRows \cup WaterRunwayRows

HelipadRows ==
  {[code |-> "HELIPAD", designator |-> "H1", pos |-> Pos(4500, 5200), latyInt |-> 0,
    orientation |-> 90, length |-> 20, width |-> 20, surface |-> 2]}

PavementHeaderRows ==
  {[code |-> "PAVEMENT_HEADER", surface |-> 2]}

NodeRows ==
  {[code |-> "NODE", pos |-> Pos(4200, 5100)],
   [code |-> "NODE_CLOSE", pos |-> Pos(4300, 5100)],
   [code |-> "NODE_AND_CONTROL_POINT", pos |-> Pos(4200, 5200), control |-> Pos(4250, 5250)],
   [code |-> "NODE_AND_CONTROL_POINT_CLOSE", pos |-> Pos(4300, 5200),
    control |-> Pos(4350, 5250)]}

ViewpointRows ==
  {[code |-> "AIRPORT_VIEWPOINT", pos |-> Pos(4500, 5500), height |-> 30]}

StartupRows ==
  {[code |-> "AEROPLANE_STARTUP_LOCATION", pos |-> Pos(4400, 5050), heading |-> 90,
    name |-> "Ramp 1"]}

VasiRows ==
  {[code |-> "LIGHTING_OBJECT", pos |-> Pos(4000, 5010), type |-> 2, orient |-> 90,
    angle |-> 3, runway |-> "09"],
   [code |-> "LIGHTING_OBJECT", pos |-> Pos(5000, 5010), type |-> 1, orient |-> 265,
    angle |-> 3, runway |-> ""],
   [code |-> "LIGHTING_OBJECT", pos |-> Pos(5000, 5020), type |-> 6, orient |-> 270,
    angle |-> 0, runway |-> "27"]}

StartupLocationRow(type, name) ==
  [code |-> "AIRPORT_LOCATION", pos |-> Pos(4600, 5100), heading |-> 180,
   type |-> type, airplaneType |-> "jets", name |-> name]

StartupLocationRows ==
  {StartupLocationRow("gate", "Gate A1"),
   StartupLocationRow("hangar", "Hangar 2"),
   StartupLocationRow("tie-down", "GA Tie Down"),
   StartupLocationRow("misc", "Cargo Ramp"),
   StartupLocationRow("misc", "Jetfuel Station"),
   StartupLocationRow("gate", "AVGAS pump")}

MetadataRow(width, optype, hasAirline, airline) ==
  [code |-> "RAMP_START_METADATA", width |-> width, optype |-> optype,
   hasAirline |-> hasAirline, airline |-> airline]

WidthCodes == {"A", "B", "C", "D", "E", "F", "Z", ""}

OpTypes == {"none", "general_aviation", "airline", "cargo", "military"}

\* every width code with an airline stand, and every operation type with D and Z
StartupLocationMetadataRows ==
  {MetadataRow(width, "airline", TRUE, "aal") : width \in WidthCodes}
  \cup {MetadataRow(width, optype, FALSE, "") :
          width \in {"D", "F", "Z"}, optype \in OpTypes \ {"airline"}}

TaxiNodeRows ==
  {[code |-> "TAXI_ROUTE_NETWORK_NODE", id |-> 1, pos |-> Pos(4100, 5050)],
   [code |-> "TAXI_ROUTE_NETWORK_NODE", id |-> 2, pos |-> Pos(4100, 5300)]}

TaxiEdgeRows ==
  {[code |-> "TAXI_ROUTE_NETWORK_EDGE", start |-> 1, end |-> 2, type |-> "taxiway",
    name |-> "A"],
   [code |-> "TAXI_ROUTE_NETWORK_EDGE", start |-> 1, end |-> 2, type |-> "taxiway",
    name |-> "Taxi_Ramp"],
   [code |-> "TAXI_ROUTE_NETWORK_EDGE", start |-> 1, end |-> 2, type |-> "runway",
    name |-> "09/27"]}

\* the datum of KSEA lies on runway 09/27; the far longitude is outside every rectangle
MetadataRecordRows ==
  {[code |-> "METADATA_RECORDS", key |-> "city", value |-> "Seattle"],
   [code |-> "METADATA_RECORDS", key |-> "datum_lat", value |-> "5000"],
   [code |-> "METADATA_RECORDS", key |-> "datum_lon", value |-> "4400"],
   [code |-> "METADATA_RECORDS", key |-> "datum_lon", value |-> "9000"]}

TruckRows ==
  {[code |-> "TRUCK_PARKING_LOCATION", type |-> "fuel_props"],
   [code |-> "TRUCK_DESTINATION_LOCATION", type |-> "baggage_loader|fuel_jets"]}

ComRows ==
  {[code |-> "COM_WEATHER", frequency |-> 11800, name |-> "SEA ATIS"],
   [code |-> "COM_WEATHER", frequency |-> 12000, name |-> "Awos 3"],
   [code |-> "COM_UNICOM", frequency |-> 12280, name |-> "UNICOM"],
   [code |-> "COM_CLEARANCE", frequency |-> 12820, name |-> "CLNC DEL"],
   [code |-> "COM_GROUND", frequency |-> 12170, name |-> "GND"],
   [code |-> "COM_TOWER", frequency |-> 11990, name |-> "TWR"],
   [code |-> "COM_APPROACH", frequency |-> 12050, name |-> "APP"],
   [code |-> "COM_DEPARTURE", frequency |-> 12040, name |-> "DEP"]}

UnusedRows ==
  {[code |-> "LINEAR_FEATURE_HEADER"], [code |-> "WINDSOCK"]}

\* one or two lines of every kind
NonHeaderRows ==
  {r \in RunwayRows : r.primary.number \in {"09", "01"}}
  \cup HelipadRows \cup PavementHeaderRows
  \cup {r \in NodeRows : r.code \in {"NODE", "NODE_AND_CONTROL_POINT_CLOSE"}}
  \cup ViewpointRows \cup StartupRows
  \cup {r \in VasiRows : r.runway = "09"}
  \cup {StartupLocationRow("gate", "Gate A1"), StartupLocationRow("misc", "Jetfuel Station")}
  \cup {MetadataRow("D", "airline", TRUE, "aal")}
  \cup TaxiNodeRows
  \cup {r \in TaxiEdgeRows : r.name = "A"}
  \cup {r \in MetadataRecordRows : r.value \in {"5000", "4400"}}
  \cup TruckRows
  \cup {r \in ComRows : r.name \in {"SEA ATIS", "TWR"}}
  \cup UnusedRows

AllRows == HeaderRows \cup NonHeaderRows

(***************************************************************************)
(* Actions: a call of write() with one line, and a call of finish()        *)
(***************************************************************************)
Init ==
  /\ w = NewWriter
  /\ input = <<>>

Write(line, max) ==
  /\ Len(input) < max
  /\ w' = write(w, line)
  /\ input' = Append(input, [op |-> "write", line |-> line])

Finish(max) ==
  /\ Len(input) < max
  /\ w' = finish(w)
  /\ input' = Append(input, [op |-> "finish"])

\* the session: every kind of line
Next ==
  \/ \E line \in AllRows : Write(line, MaxCalls)
  \/ Finish(MaxCalls)

Spec == Init /\ [][Next]_vars

(***************************************************************************)
(* The calls made and the states they led through                          *)
(***************************************************************************)
IsWrite(c) == c.op = "write"

IsFinish(c) == c.op = "finish"

IsRow(c, rowCodes) == IsWrite(c) /\ c.line.code \in rowCodes

\* the call made last
LastCall == IF input = <<>> THEN [op |-> "none"] ELSE input[Len(input)]

Apply(o, c) == IF IsFinish(c) THEN finish(o) ELSE write(o, c.line)

\* the object after the first n calls
RECURSIVE StateAfter(_)
StateAfter(n) == IF n = 0 THEN NewWriter ELSE Apply(StateAfter(n - 1), input[n])

\* the object before the call made last
Before == StateAfter(Len(input) - 1)

\* the object of the call made last at the point where it finalizes the airport:
\* write() line 279 for a header row, finish() line 378
BeforeFinalize ==
  IF IsFinish(LastCall)
  THEN finishStartupLocation(finishPavement(NewCall(Before)))
  ELSE FlushBeforeRow(NewCall(Before), LastCall.line.code)

\* the call made last finalizes the airport
Finalizes == IsFinish(LastCall) \/ IsRow(LastCall, HeaderCodes)

(***************************************************************************)
(* Airport blocks: headers, runways and approach lights                    *)
(***************************************************************************)
BlockRows ==
  HeaderRows \cup LandRunwayRows \cup {r \in VasiRows : r.runway = "09"}

NextBlocks ==
  \/ \E line \in BlockRows : Write(line, MaxBlockCalls)
  \/ Finish(MaxBlockCalls)

SpecBlocks == Init /\ [][NextBlocks]_vars

\* a header at position k whose ident the airport index already holds
IsDuplicateHeader(k) ==
  /\ IsRow(input[k], HeaderCodes)
  /\ input[k].line.icao \in StateAfter(k - 1).airportIndex

\* no call after position k and before the last call finalizes an airport
SameBlockSince(k) ==
  \A j \in (k + 1)..(Len(input) - 1) : ~IsFinish(input[j]) /\ ~IsRow(input[j], HeaderCodes)

(* C1: a header whose ident the airport index already holds puts the      *)
(* session into the ignoring state and still writes exactly one airport   *)
(* file record, for that ident; the next header or finish() then emits no *)
(* airport record for the block.                                          *)
C1_DuplicateHeaderIgnored ==
  /\ (input # <<>> /\ IsDuplicateHeader(Len(input)))
       => /\ w.ignoringAirport
          /\ ~w.writingAirport
          /\ Len(Written(w, "airport_file")) = 1
          /\ Written(w, "airport_file")[1].values.ident = LastCall.line.icao
  /\ \A k \in 1..(Len(input) - 1) :
       (IsDuplicateHeader(k) /\ SameBlockSince(k) /\ Finalizes)
          => Len(Written(w, "airport")) = 0

\* a duplicate header of an included airport, a runway of its block, and the finalize
C1_Witness ==
  \E k \in 1..(Len(input) - 2) :
    /\ IsDuplicateHeader(k)
    /\ isIncludedAirportIdent(input[k].line.icao)
    /\ SameBlockSince(k)
    /\ IsRow(input[k + 1], {"LAND_RUNWAY"})
    /\ Finalizes
    /\ Len(Written(w, "airport")) = 0
    /\ Len(Written(StateAfter(k), "airport_file")) = 1

(* C2: while the session is in the ignoring state, a row that is not a    *)
(* header emits no record and changes no counter, identifier or           *)
(* accumulator: write() leaves the object as it was.                      *)
C2_IgnoredRowsChangeNothing ==
  (IsWrite(LastCall) /\ ~IsRow(LastCall, HeaderCodes) /\ Before.ignoringAirport)
     => /\ w.sink = <<>>
        /\ w = NewCall(Before)

\* a runway row of a block that is ignored
C2_Witness ==
  /\ IsRow(LastCall, {"LAND_RUNWAY", "WATER_RUNWAY"})
  /\ Before.ignoringAirport
  /\ w.ignoringAirport
  /\ w.curRunwayEndId = 0

\* the position of the call that finalized last before the call made last, 0 if none did
RECURSIVE BlockStartFrom(_)
BlockStartFrom(k) ==
  IF k = 0 THEN 0
  ELSE IF IsFinish(input[k]) \/ IsRow(input[k], HeaderCodes) THEN k
  ELSE BlockStartFrom(k - 1)

BlockStart == BlockStartFrom(Len(input) - 1)

\* the block that the call made last closes began with a header of a new, included airport
ClosesWrittenBlock ==
  /\ Finalizes
  /\ BlockStart > 0
  /\ IsRow(input[BlockStart], HeaderCodes)
  /\ input[BlockStart].line.icao \notin StateAfter(BlockStart - 1).airportIndex
  /\ isIncludedAirportIdent(input[BlockStart].line.icao)

\* the ends of the runway rows at positions from..to: name and end type, in row order
RECURSIVE RunwayEndsOfRows(_, _)
RunwayEndsOfRows(from, to) ==
  IF from > to THEN <<>>
  ELSE (IF IsRow(input[from], {"LAND_RUNWAY", "WATER_RUNWAY"})
        THEN << <<input[from].line.primary.number, "P">>,
                <<input[from].line.secondary.number, "S">> >>
        ELSE <<>>)
       \o RunwayEndsOfRows(from + 1, to)

\* name and end type of the records of a runway end batch
EndNames(records) == [i \in 1..Len(records) |-> <<records[i].name, records[i].end_type>>]

(* C3: the header or finish() that closes the block of a new, included    *)
(* airport emits exactly one airport record, for that airport, and right  *)
(* after it one batch with the runway ends of the block: two per runway   *)
(* row, in row order, the primary end before the secondary.  No other     *)
(* call emits an airport record or a runway end batch.                    *)
C3_AirportThenRunwayEnds ==
  /\ ClosesWrittenBlock
       => /\ Len(Written(w, "airport")) = 1
          /\ Len(Written(w, "runway_end")) = 1
          /\ \E i \in 1..(Len(w.sink) - 1) :
               /\ w.sink[i].table = "airport"
               /\ w.sink[i].values.ident = input[BlockStart].line.icao
               /\ w.sink[i + 1].table = "runway_end"
               /\ EndNames(w.sink[i + 1].values)
                    = RunwayEndsOfRows(BlockStart + 1, Len(input) - 1)
  /\ (input # <<>> /\ ~ClosesWrittenBlock)
       => /\ Len(Written(w, "airport")) = 0
          /\ Len(Written(w, "runway_end")) = 0

\* a block with two runways is closed: four ends in the batch
C3_Witness ==
  /\ ClosesWrittenBlock
  /\ Len(Written(w, "airport")) = 1
  /\ Len(Written(w, "runway_end")) = 1
  /\ Len(Written(w, "runway_end")[1].values) = 4
  /\ Written(w, "runway_end")[1].values[1].name # Written(w, "runway_end")[1].values[3].name

\* the idle state: no flag set, every per-airport counter zero, no runway end and no
\* taxi node kept, no rectangle and no datum, no polygon and no stand in progress
IsIdle(o) ==
  /\ ~o.writingAirport /\ ~o.ignoringAirport
  /\ ~o.writingPavementBoundary /\ ~o.writingPavementHoles /\ ~o.writingPavementNewHole
  /\ ~o.writingStartLocation
  /\ \A counter \in {"numRunway", "numSoftRunway", "numWaterRunway", "numHardRunway",
                     "numHelipad", "numLightRunway", "numParkingGate", "numParkingGaRamp",
                     "numParkingCargo", "numParkingMilCargo", "numParkingMilCombat",
                     "numCom", "numStart", "numRunwayEndVasi", "numApron", "numTaxiPath",
                     "numRunwayEndAls", "numParking", "longestRunwayLength",
                     "longestRunwayWidth", "longestRunwayHeading", "airportAltitude",
                     "curHelipadStartNumber"} : o[counter] = 0
  /\ o.runwayEndRecords = <<>>
  /\ o.taxiNodes = {}
  /\ ~RectIsValid(o.airportRect)
  /\ ~PosIsValid(o.airportDatumPos)
  /\ ~PosIsValid(o.airportPos)
  /\ ~PosIsValid(o.longestRunwayCenterPos)
  /\ o.largestParkingGate = "" /\ o.largestParkingRamp = ""
  /\ ~o.hasTower /\ ~o.airportClosed

(* C4: after finish(), and after the finalize step of a header row, the   *)
(* session is idle whatever state it was in before: flags cleared,        *)
(* per-airport counters zero, runway ends and taxi nodes dropped,         *)
(* rectangle and datum invalid, no polygon and no stand in progress.      *)
C4_FinalizeLeavesIdle ==
  /\ IsFinish(LastCall) => IsIdle(w)
  /\ IsRow(LastCall, HeaderCodes) => IsIdle(finishAirport(BeforeFinalize))

\* finish() closes a block that had a runway, a rectangle and runway ends
C4_Witness ==
  /\ IsFinish(LastCall)
  /\ Before.writingAirport
  /\ Before.numRunway > 0
  /\ Before.runwayEndRecords # <<>>
  /\ RectIsValid(Before.airportRect)
  /\ IsIdle(w)

(***************************************************************************)
(* Pavement polygons: a header, a pavement header, nodes and a flush       *)
(***************************************************************************)
PavementRows ==
  {r \in HeaderRows : r.icao = "KSEA"}
  \cup PavementHeaderRows
  \cup {r \in NodeRows : r.code \in {"NODE_AND_CONTROL_POINT", "NODE_CLOSE"}}

NextPavement ==
  \/ \E line \in PavementRows : Write(line, MaxPavementCalls)
  \/ Finish(MaxPavementCalls)

SpecPavement == Init /\ [][NextPavement]_vars

NodeCodes == PavementCodes \ {"PAVEMENT_HEADER"}

\* the calls at positions from..to are node rows and only the last is a closing node
IsRing(from, to) ==
  \A i \in from..to :
    /\ IsRow(input[i], NodeCodes)
    /\ IsCloseCode(input[i].line.code) <=> i = to

\* the nodes that the rows at positions from..to carry, in row order
NodesOfRows(from, to) ==
  [i \in 1..(to - from + 1) |->
     LET line == input[from + i - 1].line
     IN [pos |-> line.pos,
         control |-> IF line.code \in {"NODE_AND_CONTROL_POINT", "NODE_AND_CONTROL_POINT_CLOSE"}
                     THEN line.control ELSE InvalidPos]]

\* the input ends with a pavement header at position k read while writing, a ring of
\* n node rows, a ring of m node rows and a call that is no node row
EndsWithTwoRings(k, n, m) ==
  /\ k + n + m + 1 = Len(input)
  /\ IsRow(input[k], {"PAVEMENT_HEADER"})
  /\ ~IsRow(LastCall, NodeCodes)
  /\ IsRing(k + 1, k + n)
  /\ IsRing(k + n + 1, k + n + m)
  /\ StateAfter(k - 1).writingAirport

(* C5: a pavement header read while writing, then N >= 1 node rows of     *)
(* which only the last closes, then M >= 1 node rows of which only the    *)
(* last closes, give at the flush one polygon with exactly one boundary   *)
(* ring, of those N nodes, and exactly one hole ring, of those M nodes.   *)
C5_OneBoundaryOneHole ==
  \A k \in 1..Len(input) : \A n \in 1..Len(input) : \A m \in 1..Len(input) :
    EndsWithTwoRings(k, n, m)
      => /\ Len(Written(w, "apron")) = 1
         /\ Written(w, "apron")[1].values.geometry.boundary = NodesOfRows(k + 1, k + n)
         /\ Written(w, "apron")[1].values.geometry.holes
              = << NodesOfRows(k + n + 1, k + n + m) >>

\* a boundary of two nodes and a hole of two nodes are flushed
C5_Witness ==
  /\ Len(input) >= 7
  /\ EndsWithTwoRings(Len(input) - 5, 2, 2)
  /\ Len(Written(w, "apron")) = 1
  /\ Len(Written(w, "apron")[1].values.geometry.holes[1]) = 2

(***************************************************************************)
(* Parking stands: a header, startup locations, their metadata and a flush *)
(***************************************************************************)
ParkingRows ==
  {r \in HeaderRows : r.icao = "KSEA"}
  \cup {StartupLocationRow("gate", "Gate A1"), StartupLocationRow("misc", "Jetfuel Station")}
  \cup {MetadataRow(width, "general_aviation", FALSE, "") : width \in WidthCodes}
  \cup {MetadataRow("D", "airline", TRUE, "aal"), MetadataRow("D", "none", FALSE, "")}

NextParking ==
  \/ \E line \in ParkingRows : Write(line, MaxParkingCalls)
  \/ Finish(MaxParkingCalls)

SpecParking == Init /\ [][NextParking]_vars

\* the name of a startup location holds one of the fuel keywords
HasFuelKeyword(name) ==
  \E keyword \in {"avgas", "mogas", "gas-station", "jetfuel", "fuel"} :
    Contains(ToLower(name), keyword)

\* the input ends with a startup location row read while writing, one metadata row
\* for it and a call that flushes the stand
EndsWithStandAndMetadata ==
  /\ Len(input) >= 3
  /\ IsRow(input[Len(input) - 2], {"AIRPORT_LOCATION"})
  /\ IsRow(input[Len(input) - 1], {"RAMP_START_METADATA"})
  /\ ~IsRow(LastCall, {"RAMP_START_METADATA"})
  /\ StateAfter(Len(input) - 3).writingAirport

StandRow == input[Len(input) - 2].line

StandMetadataRow == input[Len(input) - 1].line

(* C6: a stand opened by a startup location row of type "gate" with no    *)
(* fuel keyword in its name, followed at once by a metadata row with      *)
(* width code "D" and an operation type other than general_aviation,      *)
(* cargo and military, is emitted with type "GM" and radius 80.           *)
C6_GateWithWidthDIsGM ==
  (/\ EndsWithStandAndMetadata
   /\ StandRow.type = "gate"
   /\ ~HasFuelKeyword(StandRow.name)
   /\ StandMetadataRow.width = "D"
   /\ StandMetadataRow.optype \notin {"general_aviation", "cargo", "military"})
     => /\ Len(Written(w, "parking")) = 1
        /\ Written(w, "parking")[1].values.type = "GM"
        /\ Written(w, "parking")[1].values.radius = 80

\* the table of the width codes: radius and size letter
WidthTable ==
  [A |-> <<25, "S">>, B |-> <<40, "S">>, C |-> <<60, "M">>,
   D |-> <<80, "M">>, E |-> <<100, "H">>, F |-> <<130, "H">>]

RadiusAndSize(widthCode) ==
  IF widthCode \in DOMAIN WidthTable THEN WidthTable[widthCode] ELSE <<10, "S">>

(* C7: a metadata row sets the radius of the stand from its width code:   *)
(* A 25, B 40, C 60, D 80, E 100, F 130 and 10 for any other code, the    *)
(* empty one included; the size letter it appends to the type of a        *)
(* general aviation ramp is S, S, M, M, H, H and S for any other code.    *)
(* The stand is emitted with that radius and that type.                   *)
C7_WidthCodeTable ==
  /\ (IsRow(LastCall, {"RAMP_START_METADATA"}) /\ ~Before.ignoringAirport)
       => /\ w.insertParkingQuery.radius = RadiusAndSize(LastCall.line.width)[1]
          /\ (LastCall.line.optype = "general_aviation"
                /\ Before.insertParkingQuery.type # "FUEL")
               => w.insertParkingQuery.type = "RGA" \o RadiusAndSize(LastCall.line.width)[2]
  /\ EndsWithStandAndMetadata
       => /\ Len(Written(w, "parking")) = 1
          /\ Written(w, "parking")[1].values.radius = RadiusAndSize(StandMetadataRow.width)[1]
          /\ (StandMetadataRow.optype = "general_aviation" /\ ~HasFuelKeyword(StandRow.name))
               => Written(w, "parking")[1].values.type
                    = "RGA" \o RadiusAndSize(StandMetadataRow.width)[2]

\* a general aviation stand of width C is emitted: radius 60, type RGAM
C7_Witness ==
  /\ EndsWithStandAndMetadata
  /\ StandMetadataRow.width = "C"
  /\ StandMetadataRow.optype = "general_aviation"
  /\ Len(Written(w, "parking")) = 1
  /\ Written(w, "parking")[1].values.radius = 60
  /\ Written(w, "parking")[1].values.type = "RGAM"

(***************************************************************************)
(* The comparators of gate and ramp types, applied to pairs of type codes  *)
(***************************************************************************)
GateCodes == {"", "G", "GS", "GM", "GH", "RGAL"}

RampCodes == {"", "RGA", "RGAS", "RGAM", "RGAL", "GH"}

CompareGate(gate1, gate2) ==
  /\ Len(input) < MaxCompareCalls
  /\ input' = Append(input, [op |-> "compareGate", first |-> gate1, second |-> gate2,
                             result |-> compareGate(gate1, gate2)])
  /\ UNCHANGED w

CompareRamp(ramp1, ramp2) ==
  /\ Len(input) < MaxCompareCalls
  /\ input' = Append(input, [op |-> "compareRamp", first |-> ramp1, second |-> ramp2,
                             result |-> compareRamp(ramp1, ramp2)])
  /\ UNCHANGED w

NextCompare ==
  \/ \E gate1 \in GateCodes, gate2 \in GateCodes : CompareGate(gate1, gate2)
  \/ \E ramp1 \in RampCodes, ramp2 \in RampCodes : CompareRamp(ramp1, ramp2)

SpecCompare == Init /\ [][NextCompare]_vars

\* the result the comparators are to give with largest and smallest as the two named codes
ComparedAs(first, second, largest, smallest) ==
  CASE first = second -> 0
    [] first # second /\ first = largest -> 1
    [] first # second /\ first # largest /\ second = largest -> -1
    [] first # second /\ largest \notin {first, second} /\ first = smallest -> -1
    [] first # second /\ largest \notin {first, second} /\ second = smallest -> 1
    [] OTHER -> 0

(* C8: compareGate(a, b) is 0 for a = b; otherwise 1 if a is "GH", -1 if  *)
(* b is "GH", -1 if a is "GS", 1 if b is "GS", and 0 for two distinct     *)
(* codes that are neither; exchanging the arguments negates the result.   *)
(* compareRamp does the same with "RGAL" for "GH" and "RGAS" for "GS".    *)
C8_ComparatorsOrderAndNegate ==
  \A i \in 1..Len(input) :
    /\ input[i].op = "compareGate"
         => input[i].result = ComparedAs(input[i].first, input[i].second, "GH", "GS")
    /\ input[i].op = "compareRamp"
         => input[i].result = ComparedAs(input[i].first, input[i].second, "RGAL", "RGAS")
    /\ \A j \in 1..Len(input) :
         (/\ input[i].op \in {"compareGate", "compareRamp"}
          /\ input[j].op = input[i].op
          /\ input[j].first = input[i].second
          /\ input[j].second = input[i].first)
            => input[j].result = 0 - input[i].result

\* a small gate was compared with a medium one, and the medium one with the small one
C8_Witness ==
  /\ Len(input) = 2
  /\ input[1] = [op |-> "compareGate", first |-> "GS", second |-> "GM", result |-> -1]
  /\ input[2] = [op |-> "compareGate", first |-> "GM", second |-> "GS", result |-> 1]

(***************************************************************************)
(* Airport finalize: headers, the datum, a runway and a tower              *)
(***************************************************************************)
FinalizeRows ==
  {r \in HeaderRows : r.icao = "KSEA"}
  \cup {r \in MetadataRecordRows : r.key \in {"datum_lat", "datum_lon"}}
  \cup {r \in LandRunwayRows : r.primary.number = "09"}
  \cup ViewpointRows

\* the header of the next airport finalizes the airport read before it
NextFinalize == \E line \in FinalizeRows : Write(line, MaxFinishCalls)

SpecFinalize == Init /\ [][NextFinalize]_vars

\* the airport record of the call made last
EmittedAirport == Written(w, "airport")[1].values

\* o, the object when the finalize begins, is writing and has no rectangle but a datum
HasDatumOnly(o) ==
  /\ o.writingAirport /\ ~o.ignoringAirport
  /\ ~RectIsValid(o.airportRect)
  /\ PosIsValid(o.airportDatumPos)

(* C9 as claimed: at finalize, with no rectangle accumulated and a valid  *)
(* datum, the datum is used neither as the position of the airport nor    *)
(* for its rectangle.                                                     *)
C9_DatumUnusedWithoutRectangle ==
  Finalizes =>
    LET o == BeforeFinalize
    IN HasDatumOnly(o)
         => /\ EmittedAirport.pos # o.airportDatumPos
            /\ ~RectContains(EmittedAirport.rect, o.airportDatumPos)

(* C9 as amended: at finalize, with no rectangle accumulated and a valid  *)
(* datum, the datum is the position of the airport and its rectangle is   *)
(* the datum inflated by one arc minute to each side.                     *)
C9_DatumUsedWithoutRectangle ==
  Finalizes =>
    LET o == BeforeFinalize
        datum == o.airportDatumPos
    IN HasDatumOnly(o)
         => /\ Len(Written(w, "airport")) = 1
            /\ EmittedAirport.pos = datum
            /\ EmittedAirport.rect
                 = Rect(Pos(datum.lonx - ARC_MINUTE, datum.laty + ARC_MINUTE),
                        Pos(datum.lonx + ARC_MINUTE, datum.laty - ARC_MINUTE))

\* an airport with a datum and nothing that extends the rectangle is finalized
C9_Witness ==
  Finalizes /\
    LET o == BeforeFinalize
    IN /\ HasDatumOnly(o)
       /\ EmittedAirport.pos = o.airportDatumPos
       /\ RectContains(EmittedAirport.rect, o.airportDatumPos)

\* the datum of o lies in the accumulated rectangle widened by the margin of 100 m
DatumNearRect(o) ==
  /\ o.airportDatumPos.lonx >= o.airportRect.topLeft.lonx - POS_EPSILON_100M
  /\ o.airportDatumPos.lonx <= o.airportRect.bottomRight.lonx + POS_EPSILON_100M
  /\ o.airportDatumPos.laty >= o.airportRect.bottomRight.laty - POS_EPSILON_100M
  /\ o.airportDatumPos.laty <= o.airportRect.topLeft.laty + POS_EPSILON_100M

(* C10 as claimed: at finalize the center of the longest runway is        *)
(* chosen as the position of the airport only when no rectangle was       *)
(* accumulated and there is no datum.                                     *)
C10_RunwayCenterOnlyWithoutRectAndDatum ==
  Finalizes =>
    LET o == BeforeFinalize
    IN (/\ o.writingAirport /\ ~o.ignoringAirport
        /\ PosIsValid(o.longestRunwayCenterPos)
        /\ resolveBoundingRect(o).airportPos = o.longestRunwayCenterPos
        /\ EmittedAirport.pos = o.longestRunwayCenterPos)
          => ~RectIsValid(o.airportRect) /\ ~PosIsValid(o.airportDatumPos)

\* the cases in which the finalize takes the center of the longest runway
TakesRunwayCenter(o) ==
  /\ PosIsValid(o.longestRunwayCenterPos)
  /\ \/ ~RectIsValid(o.airportRect) /\ ~PosIsValid(o.airportDatumPos)
     \/ /\ RectIsValid(o.airportRect)
        /\ PosIsValid(o.airportDatumPos)
        /\ ~DatumNearRect(o)
        /\ o.numRunway = 1

\* the cases in which the finalize takes the datum
TakesDatum(o) ==
  /\ PosIsValid(o.airportDatumPos)
  /\ ~RectIsValid(o.airportRect) \/ DatumNearRect(o)

(* C10 as amended: at finalize the center of the longest runway is the    *)
(* position of the airport when no rectangle was accumulated and there is *)
(* no datum, and also when a rectangle was accumulated, a valid datum     *)
(* lies outside the rectangle widened by 100 m and exactly one runway row *)
(* was read; in every other combination it is not chosen: the position is *)
(* the datum if that is valid and there is no rectangle or the datum lies *)
(* in the widened rectangle, and the center of the rectangle otherwise.   *)
C10_RunwayCenterChosenWhen ==
  Finalizes =>
    LET o == BeforeFinalize
    IN (o.writingAirport /\ ~o.ignoringAirport)
         => /\ Len(Written(w, "airport")) = 1
            /\ EmittedAirport.pos =
                 IF TakesRunwayCenter(o) THEN o.longestRunwayCenterPos
                 ELSE IF TakesDatum(o) THEN o.airportDatumPos
                 ELSE RectGetCenter(o.airportRect)

\* one runway and a tower, and a datum far away: the center of the runway is the
\* position, not the center of the rectangle
C10_Witness ==
  Finalizes /\
    LET o == BeforeFinalize
    IN /\ o.writingAirport /\ ~o.ignoringAirport
       /\ RectIsValid(o.airportRect)
       /\ PosIsValid(o.airportDatumPos)
       /\ ~DatumNearRect(o)
       /\ o.numRunway = 1
       /\ EmittedAirport.pos = o.longestRunwayCenterPos
       /\ EmittedAirport.pos # RectGetCenter(o.airportRect)

\* o, the object when the finalize begins, is writing and has no rectangle
HasNoRect(o) ==
  /\ o.writingAirport /\ ~o.ignoringAirport
  /\ ~RectIsValid(o.airportRect)

\* the position the fallback chain of lines 1404-1415 yields for o
FallbackPos(o) ==
  IF PosIsValid(o.airportDatumPos) THEN o.airportDatumPos
  ELSE IF PosIsValid(o.longestRunwayCenterPos) THEN o.longestRunwayCenterPos
  ELSE InvalidPos

(* C11: at finalize, when no rectangle was accumulated, the rectangle and  *)
(* the position of the airport are the datum when that is valid, else the *)
(* center of the longest runway when that is valid (the rectangle being   *)
(* that point widened by one arc minute); when neither is valid the       *)
(* position and the rectangle stay unset and the record is still written. *)
C11_FallbackWithoutRectangle ==
  Finalizes =>
    LET o == BeforeFinalize
        p == FallbackPos(o)
    IN HasNoRect(o)
         => /\ Len(Written(w, "airport")) = 1
            /\ EmittedAirport.pos = p
            /\ EmittedAirport.rect
                 = IF PosIsValid(p)
                   THEN Rect(Pos(p.lonx - ARC_MINUTE, p.laty + ARC_MINUTE),
                             Pos(p.lonx + ARC_MINUTE, p.laty - ARC_MINUTE))
                   ELSE InvalidRect

\* an airport with half a datum and nothing else is finalized: nothing is valid
C11_Witness ==
  Finalizes /\
    LET o == BeforeFinalize
    IN /\ HasNoRect(o)
       /\ o.airportDatumPos.laty # INVALID_VALUE
       /\ ~PosIsValid(o.airportDatumPos)
       /\ ~PosIsValid(o.longestRunwayCenterPos)
       /\ ~PosIsValid(EmittedAirport.pos)
       /\ ~RectIsValid(EmittedAirport.rect)

(***************************************************************************)
(* Airport finalize with a rectangle and a datum: no, one or two runways   *)
(***************************************************************************)
DatumRows ==
  {r \in HeaderRows : r.icao = "KSEA"}
  \cup {r \in MetadataRecordRows : r.key \in {"datum_lat", "datum_lon"}}
  \cup LandRunwayRows
  \cup ViewpointRows

NextDatum == \E line \in DatumRows : Write(line, MaxDatumCalls)

SpecDatum == Init /\ [][NextDatum]_vars

\* o, the object when the finalize begins, is writing and has a rectangle and a datum
HasRectAndDatum(o) ==
  /\ o.writingAirport /\ ~o.ignoringAirport
  /\ RectIsValid(o.airportRect)
  /\ PosIsValid(o.airportDatumPos)

(* C12 as claimed: at finalize, with a rectangle and a datum, the datum is *)
(* the position of the airport exactly if it lies in the rectangle widened *)
(* by the margin; otherwise the position is the center of the rectangle    *)
(* if more than one runway row was read and the center of the longest     *)
(* runway if not.                                                          *)
C12_RunwayCenterUnlessSeveralRunways ==
  Finalizes =>
    LET o == BeforeFinalize
    IN HasRectAndDatum(o)
         => /\ Len(Written(w, "airport")) = 1
            /\ EmittedAirport.pos =
                 IF DatumNearRect(o) THEN o.airportDatumPos
                 ELSE IF o.numRunway > 1 THEN RectGetCenter(o.airportRect)
                 ELSE o.longestRunwayCenterPos

(* C12 as amended: at finalize, with a rectangle and a datum, the datum is *)
(* the position of the airport exactly if it lies in the rectangle widened *)
(* by the margin; otherwise the position is the center of the longest     *)
(* runway if exactly one runway row was read, and the center of the       *)
(* rectangle with any other number of runway rows, none included.         *)
C12_RunwayCenterWithOneRunway ==
  Finalizes =>
    LET o == BeforeFinalize
    IN HasRectAndDatum(o)
         => /\ Len(Written(w, "airport")) = 1
            /\ EmittedAirport.pos =
                 IF DatumNearRect(o) THEN o.airportDatumPos
                 ELSE IF o.numRunway = 1 THEN o.longestRunwayCenterPos
                 ELSE RectGetCenter(o.airportRect)

\* two runways and a datum far away: the position is the center of the rectangle,
\* which is not the center of the longest runway
C12_Witness ==
  Finalizes /\
    LET o == BeforeFinalize
    IN /\ HasRectAndDatum(o)
       /\ ~DatumNearRect(o)
       /\ o.numRunway = 2
       /\ EmittedAirport.pos = RectGetCenter(o.airportRect)
       /\ EmittedAirport.pos # o.longestRunwayCenterPos

(***************************************************************************)
(* Runways: the headers and the land and water runway rows                 *)
(***************************************************************************)
RunwaySpecRows == HeaderRows \cup RunwayRows

NextRunways ==
  \/ \E line \in RunwaySpecRows : Write(line, MaxRunwayCalls)
  \/ Finish(MaxRunwayCalls)

SpecRunways == Init /\ [][NextRunways]_vars

RunwayCodes == {"LAND_RUNWAY", "WATER_RUNWAY"}

\* the call made last is a runway row that bindRunway does not ignore
BindsRunway == IsRow(LastCall, RunwayCodes) /\ ~Before.ignoringAirport

\* the records of a list of runway ends are pairs of opposed headings in [0, 360)
OpposedPairs(records) ==
  /\ Len(records) % 2 = 0
  /\ \A k \in 1..(Len(records) \div 2) :
       LET primary == records[2 * k - 1].heading
           secondary == records[2 * k].heading
       IN /\ secondary \in 0..359
          /\ secondary = (primary + 180) % 360

(* C13: a runway row, land or water, appends a primary end whose heading   *)
(* is the bearing from the primary to the secondary position and a        *)
(* secondary end whose heading is that bearing plus 180 degrees brought   *)
(* into [0, 360); the runway end records written at finalize carry these  *)
(* headings.                                                              *)
C13_SecondaryHeadingOpposed ==
  /\ BindsRunway =>
       LET n == Len(w.runwayEndRecords)
           line == LastCall.line
           primary == AngleDegTo(line.primary.pos, line.secondary.pos)
       IN /\ n >= 2
          /\ w.runwayEndRecords[n - 1].heading = primary
          /\ w.runwayEndRecords[n].heading = (primary + 180) % 360
          /\ w.runwayEndRecords[n].heading \in 0..359
  /\ (Finalizes /\ Written(w, "runway_end") # <<>>)
       => OpposedPairs(Written(w, "runway_end")[1].values)

\* a runway due south was read: its secondary end heads north, 0 and not 360 degrees
C13_Witness ==
  /\ BindsRunway
  /\ LastCall.line.primary.number = "18"
  /\ w.runwayEndRecords[Len(w.runwayEndRecords) - 1].heading = 180
  /\ w.runwayEndRecords[Len(w.runwayEndRecords)].heading = 0

\* a polygon is in progress in o
PolygonOpen(o) == o.writingPavementBoundary \/ o.writingPavementHoles

\* the apron statement and the parking statement executed during the call made last
ApronsWritten == Written(w, "apron")
ParkingsWritten == Written(w, "parking")

(* C14: when write() gets a row that is not a pavement node row while a    *)
(* polygon is in progress, the polygon is flushed before the binder of    *)
(* the row runs: its apron record, as it stood before the call, is the    *)
(* first record of the call, and the flags are cleared (only a pavement   *)
(* header sets them again, for the polygon it opens).  When write() gets  *)
(* a row that is not a stand metadata row while a stand is in progress,   *)
(* the stand is flushed before the binder runs: its parking record, as it *)
(* stood before the call, is the first record of the call, and the flag   *)
(* is cleared (only a startup location row sets it again).                *)
C14_FlushBeforeBinder ==
  IsWrite(LastCall) =>
    LET o == Before
        rowCode == LastCall.line.code
    IN /\ (PolygonOpen(o) /\ rowCode \notin NodeCodes)
            => /\ Len(ApronsWritten) = 1
               /\ w.sink[1] = ApronsWritten[1]
               /\ ApronsWritten[1].values
                    = [o.insertApronQuery EXCEPT !.geometry = o.currentPavement]
               /\ IF rowCode = "PAVEMENT_HEADER"
                  THEN /\ w.writingPavementBoundary /\ ~w.writingPavementHoles
                       /\ w.currentPavement = EmptyPavement
                       /\ w.insertApronQuery.apron_id = o.insertApronQuery.apron_id + 1
                  ELSE ~PolygonOpen(w)
       /\ (o.writingStartLocation /\ rowCode # "RAMP_START_METADATA")
            => /\ Len(ParkingsWritten) >= 1
               /\ w.sink[1] = ParkingsWritten[1]
               /\ ParkingsWritten[1].values = o.insertParkingQuery
               /\ IF rowCode = "AIRPORT_LOCATION"
                  THEN w.writingStartLocation
                       /\ w.insertParkingQuery.parking_id = o.insertParkingQuery.parking_id + 1
                  ELSE ~w.writingStartLocation

\* a pavement header arrives while a polygon is in progress: the polygon read so far
\* is written and the polygon of the header is in progress
C14_Witness ==
  /\ IsRow(LastCall, {"PAVEMENT_HEADER"})
  /\ PolygonOpen(Before)
  /\ Before.currentPavement # EmptyPavement
  /\ Len(ApronsWritten) = 1
  /\ ApronsWritten[1].values.geometry = Before.currentPavement
  /\ PolygonOpen(w)

(***************************************************************************)
(* Stands: a header, a startup location, a plain start and the metadata    *)
(* of a medium and of a small general aviation ramp                        *)
(***************************************************************************)
StandRows ==
  {r \in HeaderRows : r.icao = "KSEA"}
  \cup {StartupLocationRow("gate", "Gate A1")}
  \cup StartupRows
  \cup {MetadataRow("C", "general_aviation", TRUE, "aal"),
        MetadataRow("A", "general_aviation", FALSE, "")}

NextStands ==
  \/ \E line \in StandRows : Write(line, MaxStandCalls)
  \/ Finish(MaxStandCalls)

SpecStands == Init /\ [][NextStands]_vars

\* the objects after each of the first n calls
RECURSIVE History(_)
History(n) ==
  IF n = 0 THEN <<>>
  ELSE LET h == History(n - 1)
           o == IF n = 1 THEN NewWriter ELSE h[n - 1]
       IN Append(h, Apply(o, input[n]))

\* the parking records with the given id among the records of one call
ParkingsWithId(sink, id) ==
  SelectSeq(sink, LAMBDA e : e.table = "parking" /\ e.values.parking_id = id)

(* C15: a stand opened by a startup location row outside the ignoring      *)
(* state is written as one parking record by the first later call that is *)
(* not a stand metadata row (a row, a header included, or finish()), and   *)
(* by no other call; until such a call arrives the stand stays open.       *)
C15_StandEmittedOnce ==
  LET n == Len(input)
      h == History(n)
      st(k) == IF k = 0 THEN NewWriter ELSE h[k]
  IN \A i \in 1..n :
       (IsRow(input[i], {"AIRPORT_LOCATION"}) /\ ~st(i - 1).ignoringAirport)
         => LET id == h[i].insertParkingQuery.parking_id
                later == {j \in (i + 1)..n : ~IsRow(input[j], {"RAMP_START_METADATA"})}
            IN /\ h[i].writingStartLocation
               /\ \A j \in later :
                    Len(ParkingsWithId(h[j].sink, id))
                      = IF \A k \in later : j <= k THEN 1 ELSE 0
               /\ \A j \in (1..n) \ later : ParkingsWithId(h[j].sink, id) = <<>>
               /\ later = {} => w.writingStartLocation /\ w.insertParkingQuery.parking_id = id

\* a stand and its metadata are followed by the header of an airport that is a
\* duplicate: the stand is written by the call of the header, before the reset
C15_Witness ==
  /\ Len(input) = 4
  /\ IsRow(input[1], HeaderCodes)
  /\ IsRow(input[2], {"AIRPORT_LOCATION"})
  /\ IsRow(input[3], {"RAMP_START_METADATA"})
  /\ IsRow(input[4], HeaderCodes)
  /\ w.ignoringAirport
  /\ Len(Written(w, "parking")) = 1
  /\ Written(w, "parking")[1].values.airline_codes = "AAL"

\* the index of the last call that reset the object (a header row or finish()), 0 if none
RECURSIVE LastResetFrom(_)
LastResetFrom(k) ==
  IF k = 0 THEN 0
  ELSE IF IsFinish(input[k]) \/ IsRow(input[k], HeaderCodes) THEN k
  ELSE LastResetFrom(k - 1)

\* the runway rows read since the last reset
RunwayRowsSinceReset ==
  {j \in (LastResetFrom(Len(input)) + 1)..Len(input) : IsRow(input[j], RunwayCodes)}

\* the ids of the runway ends in the list of o
EndIds(o) == {o.runwayEndRecords[i].runway_end_id : i \in 1..Len(o.runwayEndRecords)}

(* C16: the list of runway ends holds two records for each runway row read *)
(* outside the ignoring state since the last reset; a runway row appends   *)
(* the primary end and then the secondary end, named by the two runway    *)
(* numbers of the row, and their ids are distinct and greater than every  *)
(* runway end id assigned before in the session, earlier airports         *)
(* included.                                                              *)
C16_TwoEndsPerRunway ==
  /\ Len(w.runwayEndRecords)
       = IF w.ignoringAirport THEN 0 ELSE 2 * Cardinality(RunwayRowsSinceReset)
  /\ Len(w.runwayEndRecords) = 2 * w.numRunway
  /\ BindsRunway =>
       LET n == Len(w.runwayEndRecords)
           line == LastCall.line
           h == History(Len(input) - 1)
           primary == w.runwayEndRecords[n - 1]
           secondary == w.runwayEndRecords[n]
       IN /\ n = Len(Before.runwayEndRecords) + 2
          /\ SubSeq(w.runwayEndRecords, 1, n - 2) = Before.runwayEndRecords
          /\ primary.name = line.primary.number /\ primary.end_type = "P"
          /\ secondary.name = line.secondary.number /\ secondary.end_type = "S"
          /\ primary.runway_end_id < secondary.runway_end_id
          /\ \A k \in 1..Len(h) : \A id \in EndIds(h[k]) : id < primary.runway_end_id

\* the runway of a second airport: its ends get the ids after those of the first airport
C16_Witness ==
  /\ BindsRunway
  /\ Len(input) = 4
  /\ IsRow(input[1], HeaderCodes) /\ IsRow(input[2], RunwayCodes)
  /\ IsRow(input[3], HeaderCodes) /\ input[3].line.icao # input[1].line.icao
  /\ w.writingAirport
  /\ Len(w.runwayEndRecords) = 2
  /\ w.runwayEndRecords[1].runway_end_id = 3
  /\ w.runwayEndRecords[2].runway_end_id = 4

\* the call made last is a startup location row that writeStartupLocation does not ignore
OpensStand == IsRow(LastCall, {"AIRPORT_LOCATION"}) /\ ~Before.ignoringAirport

(* C17: the type of a stand opened by a startup location row is "FUEL"     *)
(* when the name holds a fuel keyword; otherwise it is "G" for the type    *)
(* token gate, "H" for hangar, "T" for tie-down and empty for any other    *)
(* token.                                                                  *)
C17_StandTypeOfToken ==
  OpensStand =>
    w.insertParkingQuery.type =
      IF HasFuelKeyword(LastCall.line.name) THEN "FUEL"
      ELSE CASE LastCall.line.type = "gate" -> "G"
             [] LastCall.line.type = "hangar" -> "H"
             [] LastCall.line.type = "tie-down" -> "T"
             [] OTHER -> ""

(***************************************************************************)
(* Stand metadata: a gate and a fuel stand, and every operation type       *)
(***************************************************************************)
StandMetadataRows ==
  {r \in HeaderRows : r.icao = "KSEA"}
  \cup {StartupLocationRow("gate", "Gate A1"), StartupLocationRow("misc", "Jetfuel Station")}
  \cup {MetadataRow("D", optype, FALSE, "") : optype \in OpTypes \ {"airline"}}
  \cup {MetadataRow("D", "airline", TRUE, "aal"),
        MetadataRow("E", "general_aviation", FALSE, "")}

NextMetadata == \E line \in StandMetadataRows : Write(line, MaxMetadataCalls)

SpecMetadata == Init /\ [][NextMetadata]_vars

\* the call made last is a metadata row for the stand that is open
BindsStandMetadata ==
  /\ IsRow(LastCall, {"RAMP_START_METADATA"})
  /\ ~Before.ignoringAirport
  /\ Before.writingStartLocation

\* the type after a metadata row with operation type ops and width code widthCode
\* for a stand of the given type
TypeAfterMetadata(type, ops, widthCode) ==
  LET replaced == CASE ops = "general_aviation" -> "RGA"
                    [] ops = "cargo" -> "RC"
                    [] ops = "military" -> "RM"
                    [] OTHER -> type
  IN IF type = "FUEL" THEN "FUEL"
     ELSE IF replaced \in {"G", "RGA"} THEN replaced \o RadiusAndSize(widthCode)[2]
     ELSE replaced

(* C18: a metadata row for an open stand whose type is not "FUEL" replaces *)
(* the type by "RGA", "RC" or "RM" for the operation type                  *)
(* general_aviation, cargo or military and leaves it as it is for any      *)
(* other operation type; if the type is then exactly "G" or "RGA" the      *)
(* size letter of the width code is appended.  A stand of type "FUEL"      *)
(* keeps its type.  The stand stays open.                                  *)
C18_MetadataType ==
  BindsStandMetadata =>
    /\ w.insertParkingQuery.type
         = TypeAfterMetadata(Before.insertParkingQuery.type,
                             LastCall.line.optype, LastCall.line.width)
    /\ w.writingStartLocation
    /\ w.sink = <<>>

\* a military ramp: the second metadata row of a stand that the first one had made
\* a heavy general aviation ramp
C18_Witness ==
  /\ BindsStandMetadata
  /\ Before.insertParkingQuery.type = "RGAH"
  /\ LastCall.line.optype = "military"
  /\ w.insertParkingQuery.type = "RM"

\* the types of the stands flushed since the last reset
FlushedTypes ==
  LET n == Len(input)
      h == History(n)
      types(sink) == {sink[i].values.type :
                        i \in {j \in 1..Len(sink) : sink[j].table = "parking"}}
  IN UNION {types(h[k].sink) : k \in (LastResetFrom(n) + 1)..n}

(* C19: after a stand flush in an airport block the largest ramp is a ramp *)
(* code flushed in the block that no ramp code flushed so far in the block *)
(* outranks under compareRamp, and the largest gate is a gate code flushed *)
(* in the block that no gate code flushed so far outranks under            *)
(* compareGate: after RGAM and then RGAS the largest ramp is RGAM.         *)
C19_LargestTrackers ==
  (IsWrite(LastCall) /\ ~IsRow(LastCall, HeaderCodes)
     /\ w.writingAirport /\ Written(w, "parking") # <<>>)
    => LET ramps == {t \in FlushedTypes : StartsWith(t, "RGA")}
           gates == {t \in FlushedTypes : StartsWith(t, "G")}
       IN /\ ramps # {} => /\ w.largestParkingRamp \in ramps
                           /\ \A t \in ramps : compareRamp(t, w.largestParkingRamp) <= 0
          /\ gates # {} => /\ w.largestParkingGate \in gates
                           /\ \A t \in gates : compareGate(t, w.largestParkingGate) <= 0

\* type, radius and airline codes of the parking records among the records of one call
ParkingFields(sink) ==
  LET parkings == SelectSeq(sink, LAMBDA e : e.table = "parking")
  IN [i \in 1..Len(parkings) |->
        <<parkings[i].values.type, parkings[i].values.radius,
          parkings[i].values.airline_codes>>]

\* type, radius and airline codes of the parking records that the calls write, one
\* after the other, to an object o
RECURSIVE ParkingsEmitted(_, _)
ParkingsEmitted(o, calls) ==
  IF calls = <<>> THEN <<>>
  ELSE LET o1 == Apply(o, Head(calls))
       IN ParkingFields(o1.sink) \o ParkingsEmitted(o1, Tail(calls))

\* call i is a metadata row that arrives with no stand open
IsStrayMetadata(h, i) ==
  /\ IsRow(input[i], {"RAMP_START_METADATA"})
  /\ ~(IF i = 1 THEN NewWriter ELSE h[i - 1]).writingStartLocation

(* C20: a plain start row is written as a parking record by the call that  *)
(* reads it, with empty type and radius 50, and leaves no stand open; a    *)
(* metadata row that arrives with no stand open, after a plain start row   *)
(* for one, writes nothing, opens no stand, and the type, radius and       *)
(* airline codes of the parking records written after it are what they    *)
(* are when the calls that follow it are made without it (the records     *)
(* written before it are in the sink already).                            *)
C20_PlainStartTakesNoMetadata ==
  /\ (IsRow(LastCall, {"AEROPLANE_STARTUP_LOCATION"}) /\ ~Before.ignoringAirport)
       => LET parkings == Written(w, "parking")
              own == parkings[Len(parkings)].values
          IN /\ parkings # <<>>
             /\ own.parking_id = Before.curParkingId + 1
             /\ own.name = LastCall.line.name
             /\ own.type = "" /\ own.radius = 50 /\ own.airline_codes = ""
             /\ ~w.writingStartLocation
  /\ (IsRow(LastCall, {"RAMP_START_METADATA"}) \/ Written(w, "parking") # <<>>)
       => LET n == Len(input)
              h == History(n)
          IN \A i \in 1..n :
               IsStrayMetadata(h, i)
                 => /\ h[i].sink = <<>>
                    /\ ~h[i].writingStartLocation
                    /\ ParkingsEmitted(h[i], SubSeq(input, i + 1, n))
                         = ParkingsEmitted(IF i = 1 THEN NewWriter ELSE h[i - 1],
                                           SubSeq(input, i + 1, n))

\* a plain start row, a ramp metadata row for it and a stand of its own: the start is
\* written as it was read and the stand of the third row takes nothing from the metadata
C20_Witness ==
  /\ Len(input) = 5
  /\ IsRow(input[1], HeaderCodes)
  /\ IsRow(input[2], {"AEROPLANE_STARTUP_LOCATION"})
  /\ IsRow(input[3], {"RAMP_START_METADATA"}) /\ input[3].line.hasAirline
  /\ IsRow(input[4], {"AIRPORT_LOCATION"})
  /\ IsFinish(input[5])
  /\ ParkingsEmitted(NewWriter, input) = <<(<<"", 50, "">>), (<<"", 50, "">>)>>

\* the call made last is a closing node row that bindPavementNode does not ignore
BindsClosingNode ==
  /\ IsRow(LastCall, {"NODE_CLOSE", "NODE_AND_CONTROL_POINT_CLOSE"})
  /\ ~Before.ignoringAirport

\* the node that the row of the call made last carries
LastNode == NodesOfRows(Len(input), Len(input))[1]

(* C21: a closing node read in the boundary phase is appended to the       *)
(* boundary and switches the assembler to the holes phase; a closing node  *)
(* read in the holes phase is appended to the current hole (a new one if   *)
(* the new hole flag was set) and sets the new hole flag for the node      *)
(* that follows.                                                           *)
C21_ClosingNodeSwitchesPhase ==
  BindsClosingNode =>
    LET o == Before
    IN /\ o.writingPavementBoundary
            => /\ ~w.writingPavementBoundary /\ w.writingPavementHoles
               /\ w.currentPavement.boundary = Append(o.currentPavement.boundary, LastNode)
               /\ w.currentPavement.holes = o.currentPavement.holes
       /\ (o.writingPavementHoles /\ ~o.writingPavementBoundary)
            => /\ w.writingPavementNewHole
               /\ w.writingPavementHoles /\ ~w.writingPavementBoundary
               /\ w.currentPavement.boundary = o.currentPavement.boundary
               /\ w.currentPavement.holes =
                    IF o.writingPavementNewHole
                    THEN Append(o.currentPavement.holes, <<LastNode>>)
                    ELSE [o.currentPavement.holes EXCEPT
                            ![Len(o.currentPavement.holes)] = Append(@, LastNode)]

\* a closing node ends a hole of two nodes: the next node starts another hole
C21_Witness ==
  /\ BindsClosingNode
  /\ Before.writingPavementHoles /\ ~Before.writingPavementNewHole
  /\ w.writingPavementNewHole
  /\ Len(w.currentPavement.holes) = 1
  /\ Len(w.currentPavement.holes[1]) = 2

\* the call made last flushes the polygon in progress: any call but a node row
FlushesPolygon ==
  /\ input # <<>>
  /\ ~IsRow(LastCall, NodeCodes)
  /\ PolygonOpen(Before)

(* C22: the flush of a polygon whose boundary is empty (a pavement header  *)
(* followed at once by a row that is no pavement row, by another pavement  *)
(* header or by a finalize) writes no apron record; every flush leaves    *)
(* the boundary, holes and new hole flags false (a pavement header sets    *)
(* the boundary flag again for the polygon it opens).                     *)
C22_EmptyBoundaryFlushIsNoOp ==
  FlushesPolygon =>
    /\ Before.currentPavement.boundary = <<>> => Written(w, "apron") = <<>>
    /\ ~w.writingPavementHoles /\ ~w.writingPavementNewHole
    /\ w.writingPavementBoundary <=> IsRow(LastCall, {"PAVEMENT_HEADER"})

\* the call made last is a closing node read in the holes phase directly after a
\* closing node that was read in the holes phase as well
ClosesHoleAfterHole ==
  /\ Len(input) >= 2
  /\ BindsClosingNode
  /\ IsRow(input[Len(input) - 1], {"NODE_CLOSE", "NODE_AND_CONTROL_POINT_CLOSE"})
  /\ Before.writingPavementHoles
  /\ StateAfter(Len(input) - 2).writingPavementHoles

\* the rings of the holes of the polygon in progress
HoleRings == {w.currentPavement.holes[i] : i \in 1..Len(w.currentPavement.holes)}

(* C23 as claimed: a hole closing node that arrives directly after another *)
(* hole closing node produces an empty hole ring in the polygon.           *)
C23_SecondCloseGivesEmptyRing ==
  ClosesHoleAfterHole => <<>> \in HoleRings

(* C23 as amended: a hole closing node that arrives directly after another *)
(* hole closing node opens a new hole ring that holds exactly one node,    *)
(* the closing node itself; the rings read before are as they were and no  *)
(* ring of the polygon is empty.                                           *)
C23_SecondCloseGivesOneNodeRing ==
  ClosesHoleAfterHole =>
    /\ w.currentPavement.holes = Append(Before.currentPavement.holes, <<LastNode>>)
    /\ w.currentPavement.boundary = Before.currentPavement.boundary
    /\ <<>> \notin HoleRings
    /\ w.writingPavementNewHole

\* a boundary, a hole of two nodes and a closing node at once after it: two holes, the
\* second of one node
C23_Witness ==
  /\ ClosesHoleAfterHole
  /\ Len(w.currentPavement.holes) = 2
  /\ Len(w.currentPavement.holes[1]) = 2
  /\ w.currentPavement.holes[2] = <<LastNode>>

(***************************************************************************)
(* Runway counters: the surface classes, the longest runway and the lights *)
(***************************************************************************)
\* 10/28: a surface code that is none of the named surfaces, as long as 09/27;
\* 04/22: gravel, 500 m due north, a center light code that is not 1
RunwayCountRows ==
  {r \in HeaderRows : r.icao = "KSEA"} \cup RunwayRows \cup
  {[code |-> "LAND_RUNWAY", width |-> 20, surface |-> 20, shoulder |-> 0,
    centerLights |-> 0, edgeLights |-> 0,
    primary |-> RunwayEndFields("10", Pos(4000, 5200), 0),
    secondary |-> RunwayEndFields("28", Pos(5000, 5200), 0)],
   [code |-> "LAND_RUNWAY", width |-> 25, surface |-> 5, shoulder |-> 0,
    centerLights |-> 2, edgeLights |-> 0,
    primary |-> RunwayEndFields("04", Pos(3000, 3000), 0),
    secondary |-> RunwayEndFields("22", Pos(3000, 3500), 0)]}

NextRunwayCounts ==
  \/ \E line \in RunwayCountRows : Write(line, MaxRunwayCalls)
  \/ Finish(MaxRunwayCalls)

SpecRunwayCounts == Init /\ [][NextRunwayCounts]_vars

\* the surface of a runway row as bindRunway reads it
SurfaceOfRow(line) == IF line.code = "LAND_RUNWAY" THEN line.surface ELSE 13

\* the counters of the three surface classes
SurfaceCounters(o) == <<o.numHardRunway, o.numSoftRunway, o.numWaterRunway>>

\* the call made last finalizes an airport that is written
FinalizesWritten == Finalizes /\ Written(w, "airport") # <<>>

(* C24: every runway row increments exactly one of the hard, soft and     *)
(* water counters, the one of its surface code (a water row always the    *)
(* water counter), whatever integer the surface code is, so that the      *)
(* num_runways value written at finalize, hard + soft + water, is the     *)
(* number of runway rows of the block.                                    *)
C24_OneSurfaceCounterPerRunway ==
  /\ BindsRunway =>
       LET o == Before
           surface == SurfaceOfRow(LastCall.line)
           d == [i \in 1..3 |-> SurfaceCounters(w)[i] - SurfaceCounters(o)[i]]
       IN /\ d \in {<<1, 0, 0>>, <<0, 1, 0>>, <<0, 0, 1>>}
          /\ d[1] = 1 <=> isSurfaceHard(surface)
          /\ d[2] = 1 <=> isSurfaceSoft(surface)
          /\ d[3] = 1 <=> isSurfaceWater(surface)
          /\ LastCall.line.code = "WATER_RUNWAY" => d[3] = 1
  /\ FinalizesWritten =>
       EmittedAirport.num_runways
         = Cardinality({j \in (LastResetFrom(Len(input) - 1) + 1)..(Len(input) - 1) :
                          IsRow(input[j], RunwayCodes)})

\* the runway rows whose surface is one of the named surfaces are counted once
C24_NamedSurfaceCounted ==
  BindsRunway =>
    LET o == Before
        surface == SurfaceOfRow(LastCall.line)
        named == isSurfaceHard(surface) \/ isSurfaceSoft(surface) \/ isSurfaceWater(surface)
        sum(x) == x.numHardRunway + x.numSoftRunway + x.numWaterRunway
    IN sum(w) = sum(o) + (IF named THEN 1 ELSE 0)

\* the lines of the runway rows that the object has bound since the last reset
RECURSIVE RunwayLinesFrom(_)
RunwayLinesFrom(j) ==
  IF j > Len(input) THEN <<>>
  ELSE IF IsRow(input[j], RunwayCodes) THEN <<input[j].line>> \o RunwayLinesFrom(j + 1)
  ELSE RunwayLinesFrom(j + 1)

BoundRunwayLines ==
  IF w.ignoringAirport THEN <<>> ELSE RunwayLinesFrom(LastResetFrom(Len(input)) + 1)

\* the length in feet of the runway of a row
LengthOfRow(line) == meterToFeet(DistanceMeterTo(line.primary.pos, line.secondary.pos))

(* C25: at every point the length of the longest runway is the maximum of *)
(* the lengths of the runway rows read so far in the block, 0 if there is *)
(* none, and the width, heading, surface and center kept with it are      *)
(* those of the first runway row that has this length: a later runway of  *)
(* the same length does not replace them.                                 *)
C25_LongestRunwayIsFirstMaximum ==
  LET rows == BoundRunwayLines
  IN IF rows = <<>> THEN w.longestRunwayLength = 0
     ELSE LET first == CHOOSE i \in 1..Len(rows) :
                         /\ \A j \in 1..Len(rows) : LengthOfRow(rows[j]) <= LengthOfRow(rows[i])
                         /\ \A j \in 1..(i - 1) : LengthOfRow(rows[j]) < LengthOfRow(rows[i])
              line == rows[first]
          IN /\ w.longestRunwayLength = LengthOfRow(line)
             /\ w.longestRunwayWidth = meterToFeet(line.width)
             /\ w.longestRunwayHeading = AngleDegTo(line.primary.pos, line.secondary.pos)
             /\ w.longestRunwaySurface = surfaceToDb(SurfaceOfRow(line))
             /\ w.longestRunwayCenterPos
                  = InterpolateHalf(line.primary.pos, line.secondary.pos)

\* 09/27 and then 10/28 of the same length: the longest runway is still 09/27
C25_Witness ==
  /\ Len(input) >= 2
  /\ BindsRunway
  /\ LastCall.line.code = "LAND_RUNWAY" /\ LastCall.line.primary.number = "10"
  /\ IsRow(input[Len(input) - 1], {"LAND_RUNWAY"})
  /\ input[Len(input) - 1].line.primary.number = "09"
  /\ Before.writingAirport
  /\ Before.numRunway = 1
  /\ w.longestRunwayLength = LengthOfRow(LastCall.line)
  /\ w.longestRunwayWidth = meterToFeet(30)
  /\ w.longestRunwaySurface = "A"

\* the light code of the edge lights of a land runway row, "" if none
EdgeLightOfRow(line) ==
  IF line.edgeLights \in {1, 2, 3} THEN <<"L", "M", "H">>[line.edgeLights] ELSE ""

\* the light code of the center lights of a land runway row, "" if none
CenterLightOfRow(line) == IF line.centerLights = 1 THEN "M" ELSE ""

(* C26: a land runway row increments the counter of lit runways exactly   *)
(* when the edge light code or the center light code written for it is    *)
(* present (edge 1, 2, 3 give L, M, H, center 1 gives M, every other code *)
(* gives none); a water runway row never increments it.                   *)
C26_LitRunwayIffLightCode ==
  BindsRunway =>
    LET line == LastCall.line
        runway == Written(w, "runway")[1].values
        lit == runway.edge_light # "" \/ runway.center_light # ""
    IN IF line.code = "LAND_RUNWAY"
       THEN /\ runway.edge_light = EdgeLightOfRow(line)
            /\ runway.center_light = CenterLightOfRow(line)
            /\ w.numLightRunway = Before.numLightRunway + (IF lit THEN 1 ELSE 0)
       ELSE w.numLightRunway = Before.numLightRunway

\* for the light codes of the enumeration (edge 0..3, center 0 or 1) the counter
\* is incremented exactly when a light code is written
C26_ValidCodesCounted ==
  (BindsRunway /\ LastCall.line.code = "LAND_RUNWAY"
     /\ LastCall.line.edgeLights \in 0..3 /\ LastCall.line.centerLights \in 0..1)
  => C26_LitRunwayIffLightCode

(***************************************************************************)
(* Approach indicators: two runways of nearly the same direction and the   *)
(* indicator rows with and without a runway name                           *)
(***************************************************************************)
\* 10/28: 1000 m east and 100 m south, heading 96 and 276
SlantedRunwayRow ==
  [code |-> "LAND_RUNWAY", width |-> 30, surface |-> 2, shoulder |-> 0,
   centerLights |-> 0, edgeLights |-> 1,
   primary |-> RunwayEndFields("10", Pos(4000, 5300), 0),
   secondary |-> RunwayEndFields("28", Pos(5000, 5200), 0)]

VasiRow(type, orient, runway) ==
  [code |-> "LIGHTING_OBJECT", pos |-> Pos(4000, 5010), type |-> type, orient |-> orient,
   angle |-> 3, runway |-> runway]

VasiSpecRows ==
  {r \in HeaderRows : r.icao = "KSEA"}
  \cup {r \in LandRunwayRows : r.primary.number = "09"} \cup {SlantedRunwayRow}
  \cup {r \in VasiRows : r.runway # "09"}
  \cup {VasiRow(0, 90, "09"), VasiRow(2, 94, ""), VasiRow(5, 280, "33"),
        VasiRow(3, 91, "10")}

NextVasi == \E line \in VasiSpecRows : Write(line, MaxVasiCalls)

SpecVasi == Init /\ [][NextVasi]_vars

\* the call made last is an indicator row that bindVasi tries to match
MatchesVasi ==
  /\ IsRow(LastCall, {"LIGHTING_OBJECT"})
  /\ ~Before.ignoringAirport
  /\ LastCall.line.type \notin {0, 6}

\* the ends of records with the name rwName
EndsNamed(records, rwName) ==
  {i \in 1..Len(records) : rwName # "" /\ records[i].name = rwName}

\* the difference of the heading of an end and an orientation
HeadingDiff(records, i, orientation) == Abs(records[i].heading - orientation)

\* the ends of records within 10 degrees of the orientation
EndsWithin10(records, orientation) ==
  {i \in 1..Len(records) : HeadingDiff(records, i, orientation) < 10}

\* the least number of a set of numbers that is not empty
Least(S) == CHOOSE i \in S : \A j \in S : i <= j

\* the end that the claim chooses for the row, 0 if none
ChosenEnd(records, line) ==
  LET named == EndsNamed(records, line.runway)
      near == EndsWithin10(records, line.orient)
      nearest == {i \in near : \A j \in near : HeadingDiff(records, i, line.orient)
                                                 <= HeadingDiff(records, j, line.orient)}
  IN IF named # {} THEN Least(named)
     ELSE IF near # {} THEN Least(nearest)
     ELSE 0

\* the ends of w that differ from those before the call
ChangedEnds ==
  {i \in 1..Len(w.runwayEndRecords) : w.runwayEndRecords[i] # Before.runwayEndRecords[i]}

(* C27: an indicator row is matched first to the first runway end whose   *)
(* name is the runway name of the row; only when the name is empty or no  *)
(* end has it, the row is matched by heading, to an end whose heading     *)
(* differs from the orientation of the row by less than 10 degrees and by *)
(* no more than that of any other end, the earliest of them on ties.      *)
C27_VasiMatchedByNameThenHeading ==
  MatchesVasi =>
    LET records == Before.runwayEndRecords
        line == LastCall.line
        chosen == ChosenEnd(records, line)
    IN /\ Len(w.runwayEndRecords) = Len(records)
       /\ ChangedEnds \subseteq {chosen}
       /\ chosen # 0 =>
            /\ w.runwayEndRecords[chosen].left_vasi_type = approachIndicatorToDb(line.type)
            /\ w.numRunwayEndVasi = Before.numRunwayEndVasi + 1
       /\ chosen = 0 => w.numRunwayEndVasi = Before.numRunwayEndVasi

\* 09/27 and then 10/28: the row without a name and with orientation 94 takes the
\* third end (heading 96), not the first (heading 90) that is within 10 degrees too
C27_Witness ==
  /\ MatchesVasi
  /\ LastCall.line.runway = "" /\ LastCall.line.orient = 94
  /\ Before.writingAirport
  /\ Len(Before.runwayEndRecords) = 4
  /\ Before.runwayEndRecords[1].heading = 90
  /\ Before.runwayEndRecords[3].heading = 96
  /\ EndsWithin10(Before.runwayEndRecords, 94) = {1, 3}
  /\ ChangedEnds = {3}
  /\ w.runwayEndRecords[3].left_vasi_type = "PAPI4"

\* the row named "10" with orientation 91 takes the end "10" although the end "09"
\* is nearer by heading
C27_WitnessName ==
  /\ MatchesVasi
  /\ LastCall.line.runway = "10"
  /\ Before.writingAirport
  /\ Len(Before.runwayEndRecords) = 4
  /\ Before.runwayEndRecords[1].name = "09"
  /\ Before.runwayEndRecords[3].name = "10"
  /\ ChangedEnds = {3}

(* C28: an indicator row of type none or runway guard, and a row for      *)
(* which no end has the name and no end is within 10 degrees by heading,  *)
(* leaves every runway end record and the indicator counter unchanged; a  *)
(* matched row sets the left indicator type and pitch of exactly one end, *)
(* sets the right side of that end to UNKN with pitch 0, changes no other *)
(* end and increments the counter by one.                                 *)
C28_VasiFrame ==
  (IsRow(LastCall, {"LIGHTING_OBJECT"}) /\ ~Before.ignoringAirport) =>
    LET records == Before.runwayEndRecords
        line == LastCall.line
        matched == /\ line.type \notin {0, 6}
                   /\ \/ EndsNamed(records, line.runway) # {}
                      \/ EndsWithin10(records, line.orient) # {}
    IN IF ~matched
       THEN /\ w.runwayEndRecords = records
            /\ w.numRunwayEndVasi = Before.numRunwayEndVasi
       ELSE /\ w.numRunwayEndVasi = Before.numRunwayEndVasi + 1
            /\ \E i \in 1..Len(records) :
                 w.runwayEndRecords =
                   [records EXCEPT
                      ![i] = [@ EXCEPT !.left_vasi_type = approachIndicatorToDb(line.type),
                                       !.left_vasi_pitch = line.angle,
                                       !.right_vasi_type = "UNKN",
                                       !.right_vasi_pitch = 0]]

\* a matched row: one end of four gets the indicator
C28_Witness ==
  /\ MatchesVasi
  /\ Before.writingAirport
  /\ Len(Before.runwayEndRecords) = 4
  /\ Cardinality(ChangedEnds) = 1
  /\ \E i \in ChangedEnds :
       /\ Before.runwayEndRecords[i].right_vasi_type = ""
       /\ w.runwayEndRecords[i].right_vasi_type = "UNKN"
       /\ w.runwayEndRecords[i].left_vasi_pitch = 3

\* a row of type runway guard and a row that matches no end change nothing
C28_WitnessUnmatched ==
  /\ IsRow(LastCall, {"LIGHTING_OBJECT"})
  /\ Before.writingAirport /\ ~Before.ignoringAirport
  /\ Len(Before.runwayEndRecords) = 2
  /\ Before.runwayEndRecords[2].heading = 270
  /\ LastCall.line.runway = "33" /\ LastCall.line.orient = 280
  /\ w.runwayEndRecords = Before.runwayEndRecords

(***************************************************************************)
(* Taxi edges and com frequencies                                          *)
(***************************************************************************)
TaxiEdgeRow(type, name) ==
  [code |-> "TAXI_ROUTE_NETWORK_EDGE", start |-> 1, end |-> 2, type |-> type, name |-> name]

ComRow(code, frequency, name) == [code |-> code, frequency |-> frequency, name |-> name]

TaxiComRows ==
  {r \in HeaderRows : r.icao = "KSEA"}
  \cup TaxiNodeRows \cup TaxiEdgeRows
  \cup {TaxiEdgeRow("taxiway", "twy"), TaxiEdgeRow("taxiway", "TWYA")}
  \cup ComRows
  \cup {ComRow("COM_WEATHER", 12100, "KSEA ASOS"), ComRow("COM_WEATHER", 12200, "WX"),
        ComRow("COM_WEATHER", 12300, "Asos Atis")}

NextTaxiCom ==
  \/ \E line \in TaxiComRows : Write(line, MaxCalls)
  \/ Finish(MaxCalls)

SpecTaxiCom == Init /\ [][NextTaxiCom]_vars

\* the call made last is a taxi edge row that bindTaxiEdge does not ignore
BindsTaxiEdge == IsRow(LastCall, {"TAXI_ROUTE_NETWORK_EDGE"}) /\ ~Before.ignoringAirport

\* the tokens that stand for no name
PlaceholderTokens ==
  {"*", "**", "+", "-", ".", "taxiway", "taxi_to_ramp", "taxi_ramp", "taxy_ramp",
   "unnamed", "twy", "taxi"}

(* C29: a taxi edge row of type "runway" writes no taxi record, does not  *)
(* change the counter of taxi paths and does not extend the bounding      *)
(* rectangle; every other taxi edge row read outside the ignoring state   *)
(* writes exactly one taxi record and increments the counter by one, and  *)
(* the name of the record is empty exactly when the name of the row is,   *)
(* without regard to case, one of the placeholder tokens.                 *)
C29_TaxiEdgeFilter ==
  BindsTaxiEdge =>
    LET line == LastCall.line
        taxi == Written(w, "taxi_path")
    IN IF line.type = "runway"
       THEN /\ taxi = <<>>
            /\ w.numTaxiPath = Before.numTaxiPath
            /\ w.airportRect = Before.airportRect
       ELSE /\ Len(taxi) = 1
            /\ w.numTaxiPath = Before.numTaxiPath + 1
            /\ taxi[1].values.name
                 = IF ToLower(line.name) \in PlaceholderTokens THEN "" ELSE line.name

\* the edge named Taxi_Ramp between a node read and a node not read: one record
\* without a name, and the rectangle has the node
C29_Witness ==
  /\ BindsTaxiEdge
  /\ Before.writingAirport
  /\ LastCall.line.name = "Taxi_Ramp"
  /\ Len(Written(w, "taxi_path")) = 1
  /\ Written(w, "taxi_path")[1].values.name = ""
  /\ w.numTaxiPath = 1
  /\ ~RectIsValid(Before.airportRect) /\ RectIsValid(w.airportRect)

\* the edge of type runway after a node: nothing is written and no rectangle begun
C29_WitnessRunway ==
  /\ BindsTaxiEdge
  /\ Before.writingAirport
  /\ LastCall.line.type = "runway"
  /\ Before.taxiNodes # {}
  /\ ~RectIsValid(w.airportRect)
  /\ w.sink = <<>>

\* the call made last is a com row that writeCom does not ignore
WritesCom == IsRow(LastCall, ComCodes) /\ ~Before.ignoringAirport

\* the category of a com row and the frequency field of the airport that it sets,
\* "" if it sets none
ComCategory(line) ==
  LET lower == ToLower(line.name)
      has(keyword) == Contains(lower, keyword)
  IN CASE line.code = "COM_WEATHER" ->
            IF has("atis") THEN <<"ATIS", "atis_frequency">>
            ELSE IF has("awos") THEN <<"AWOS", "awos_frequency">>
            ELSE IF has("asos") THEN <<"ASOS", "asos_frequency">>
            ELSE <<"ATIS", "atis_frequency">>
       [] line.code = "COM_UNICOM" -> <<"UC", "unicom_frequency">>
       [] line.code = "COM_TOWER" -> <<"T", "tower_frequency">>
       [] line.code = "COM_CLEARANCE" -> <<"C", "">>
       [] line.code = "COM_GROUND" -> <<"G", "">>
       [] line.code = "COM_APPROACH" -> <<"A", "">>
       [] line.code = "COM_DEPARTURE" -> <<"D", "">>

(* C30: a com row writes one com record whose frequency is the value of   *)
(* the row times 10 and whose category is that of its subtype; a weather  *)
(* row is ATIS if its name contains "atis", else AWOS if it contains      *)
(* "awos", else ASOS if it contains "asos", else ATIS, without regard to  *)
(* case, and sets the frequency field of the airport of that category;    *)
(* tower and unicom rows set their field of the airport; clearance,       *)
(* ground, approach and departure rows change no frequency field of the   *)
(* airport.                                                               *)
C30_ComCategoryAndAirportField ==
  WritesCom =>
    LET line == LastCall.line
        com == Written(w, "com")
        category == ComCategory(line)
        airport == Before.insertAirportQuery
    IN /\ Len(com) = 1
       /\ com[1].values.frequency = line.frequency * 10
       /\ com[1].values.type = category[1]
       /\ w.insertAirportQuery
            = IF category[2] = "" THEN airport
              ELSE [airport EXCEPT ![category[2]] = line.frequency * 10]
       /\ w.numCom = Before.numCom + 1

\* the weather row named KSEA ASOS in a block: an ASOS record and the ASOS field
C30_Witness ==
  /\ WritesCom
  /\ Before.writingAirport
  /\ LastCall.line.name = "KSEA ASOS"
  /\ Written(w, "com")[1].values.type = "ASOS"
  /\ Written(w, "com")[1].values.frequency = 121000
  /\ w.insertAirportQuery.asos_frequency = 121000
  /\ Before.insertAirportQuery.asos_frequency # 121000
  /\ w.insertAirportQuery.atis_frequency = Before.insertAirportQuery.atis_frequency

\* the call made last is a helipad row that writeHelipad does not ignore
WritesHelipad == IsRow(LastCall, {"HELIPAD"}) /\ ~Before.ignoringAirport

(* C31: the surface of a helipad record is the surface of the code in the *)
(* surface field of the helipad row, and the helipad record refers to the *)
(* start record written for the same row.                                 *)
C31_HelipadSurfaceAndStart ==
  WritesHelipad =>
    LET line == LastCall.line
        helipad == Written(w, "helipad")
        start == Written(w, "start")
    IN /\ Len(helipad) = 1 /\ Len(start) = 1
       /\ helipad[1].values.start_id = start[1].values.start_id
       /\ helipad[1].values.surface = surfaceToDb(line.surface)

\* the helipad record refers to the start record of its row
C31_HelipadRefersToItsStart ==
  WritesHelipad =>
    /\ Len(Written(w, "helipad")) = 1 /\ Len(Written(w, "start")) = 1
    /\ Written(w, "helipad")[1].values.start_id = Written(w, "start")[1].values.start_id
    /\ Written(w, "start")[1].values.type = "H"
    /\ Written(w, "start")[1].values.pos = LastCall.line.pos

(***************************************************************************)
(* Fuel: the stands whose names carry a fuel keyword                       *)
(***************************************************************************)
FuelRows ==
  {r \in HeaderRows : r.icao = "KSEA"}
  \cup {StartupLocationRow("gate", "Gate A1"), StartupLocationRow("gate", "AVGAS pump"),
        StartupLocationRow("misc", "Mogas"), StartupLocationRow("misc", "Gas-Station 1"),
        StartupLocationRow("misc", "Jetfuel Station"), StartupLocationRow("misc", "Fuel Depot")}

NextFuel ==
  \/ \E line \in FuelRows : Write(line, MaxCalls)
  \/ Finish(MaxCalls)

SpecFuel == Init /\ [][NextFuel]_vars

\* the name of the row of the last call has the keyword, without regard to case
NameHas(keyword) == Contains(ToLower(LastCall.line.name), keyword)

(* C32: for a startup location row, a name that contains "avgas", "mogas" *)
(* or "gas-station" sets the avgas flag of the airport, a name that       *)
(* contains "jetfuel" sets the jetfuel flag, and a name that contains     *)
(* "fuel" sets both flags; a name that contains none of them changes      *)
(* neither flag.                                                          *)
C32_FuelFlagsOfName ==
  OpensStand =>
    LET gas == NameHas("avgas") \/ NameHas("mogas") \/ NameHas("gas-station")
        jet == NameHas("jetfuel")
        fuel == NameHas("fuel")
        before == Before.insertAirportQuery
        after == w.insertAirportQuery
    IN /\ gas => after.has_avgas = 1
       /\ jet => after.has_jetfuel = 1
       /\ fuel => after.has_avgas = 1 /\ after.has_jetfuel = 1
       /\ ~(gas \/ fuel) => after.has_avgas = before.has_avgas
       /\ ~(jet \/ fuel) => after.has_jetfuel = before.has_jetfuel
       /\ after = [before EXCEPT !.has_avgas = after.has_avgas,
                                 !.has_jetfuel = after.has_jetfuel]

\* the stand named Fuel Depot in a block without fuel so far: both flags are set
C32_Witness ==
  /\ OpensStand
  /\ Before.writingAirport
  /\ LastCall.line.name = "Fuel Depot"
  /\ Before.insertAirportQuery.has_avgas = 0 /\ Before.insertAirportQuery.has_jetfuel = 0
  /\ w.insertAirportQuery.has_avgas = 1 /\ w.insertAirportQuery.has_jetfuel = 1

\* the object when bindAirport starts for the header row read last
AtBindAirport == finishAirport(BeforeFinalize)

(* C33: in every state reached through write() and finish() the writing   *)
(* flag and the ignoring flag are never both set, and whenever bindAirport *)
(* starts both are clear, so that its two warnings about the state cannot  *)
(* be given.                                                              *)
C33_WritingExcludesIgnoring ==
  /\ ~(w.writingAirport /\ w.ignoringAirport)
  /\ IsRow(LastCall, HeaderCodes) =>
       /\ ~AtBindAirport.writingAirport /\ ~AtBindAirport.ignoringAirport
       /\ w.writingAirport # w.ignoringAirport

\* a header row read in the ignoring state begins an airport that is written
C33_Witness ==
  /\ IsRow(LastCall, HeaderCodes)
  /\ Before.ignoringAirport /\ ~Before.writingAirport
  /\ w.writingAirport /\ ~w.ignoringAirport

\* a header row read while an airport is written begins an airport that is ignored
C33_WitnessIgnored ==
  /\ IsRow(LastCall, HeaderCodes)
  /\ Before.writingAirport
  /\ w.ignoringAirport /\ ~w.writingAirport

(* C34: in every state the boundary phase and the holes phase of the      *)
(* polygon are never both active, and the new hole flag is set only while *)
(* the holes phase is active; while the session is ignoring an airport    *)
(* the three flags are clear.                                             *)
C34_PolygonFlags ==
  /\ ~(w.writingPavementBoundary /\ w.writingPavementHoles)
  /\ w.writingPavementNewHole => w.writingPavementHoles
  /\ w.ignoringAirport =>
       /\ ~w.writingPavementBoundary
       /\ ~w.writingPavementHoles
       /\ ~w.writingPavementNewHole

\* the node that closes the boundary: the holes phase alone is active, with a new hole
C34_Witness ==
  /\ BindsClosingNode
  /\ Before.writingAirport
  /\ Before.writingPavementBoundary /\ ~Before.writingPavementHoles
  /\ ~w.writingPavementBoundary /\ w.writingPavementHoles /\ w.writingPavementNewHole

\* a duplicate header read while a polygon is open: the flags are clear when ignoring
C34_WitnessIgnoring ==
  /\ IsRow(LastCall, HeaderCodes)
  /\ PolygonOpen(Before)
  /\ w.ignoringAirport
  /\ ~PolygonOpen(w)

(* C35: after every call of write() a polygon in progress and a stand in  *)
(* progress never exist together: a stand metadata row flushes an open    *)
(* polygon, and a pavement header row or a pavement node row flushes an   *)
(* open stand.                                                            *)
C35_PolygonExcludesStand ==
  /\ ~(PolygonOpen(w) /\ w.writingStartLocation)
  /\ (IsRow(LastCall, {"RAMP_START_METADATA"}) /\ PolygonOpen(Before)) =>
       /\ ~PolygonOpen(w)
       /\ Len(Written(w, "apron")) = 1
  /\ (IsRow(LastCall, PavementCodes) /\ Before.writingStartLocation) =>
       /\ ~w.writingStartLocation
       /\ Len(Written(w, "parking")) = 1

\* a pavement header read while a stand is open: the stand is written, the polygon begun
C35_Witness ==
  /\ IsRow(LastCall, {"PAVEMENT_HEADER"})
  /\ Before.writingAirport /\ Before.writingStartLocation
  /\ ~w.writingStartLocation /\ PolygonOpen(w)
  /\ Len(Written(w, "parking")) = 1

\* a stand metadata row read while a polygon is open: the polygon is written
C35_WitnessMetadata ==
  /\ IsRow(LastCall, {"RAMP_START_METADATA"})
  /\ Before.writingAirport /\ PolygonOpen(Before)
  /\ ~PolygonOpen(w)
  /\ Len(Written(w, "apron")) = 1

\* the call made last is a pavement node row read, outside the ignoring state,
\* while no polygon is in progress
BindsStrayNode ==
  /\ IsRow(LastCall, NodeCodes)
  /\ ~Before.ignoringAirport
  /\ ~PolygonOpen(Before)

(* C36: a pavement node row read while no polygon is in progress (after a *)
(* linear feature header, or after any row that has flushed the polygon)  *)
(* is added to no polygon and causes no apron record, but it extends the  *)
(* bounding rectangle of the airport; an apron record is written only by  *)
(* a call that found a polygon in progress.                               *)
C36_StrayNodeOnlyExtendsRect ==
  /\ BindsStrayNode =>
       /\ w.currentPavement = Before.currentPavement
       /\ ~PolygonOpen(w)
       /\ w.numApron = Before.numApron
       /\ Written(w, "apron") = <<>>
       /\ w.airportRect = RectExtend(Before.airportRect, LastCall.line.pos)
       /\ RectIsValid(w.airportRect)
  /\ (input # <<>> /\ Written(w, "apron") # <<>>) => PolygonOpen(Before)

\* a node after a linear feature header in a block: the rectangle begins with the node
C36_Witness ==
  /\ Len(input) >= 2
  /\ BindsStrayNode
  /\ Before.writingAirport
  /\ IsRow(input[Len(input) - 1], {"LINEAR_FEATURE_HEADER"})
  /\ ~RectIsValid(Before.airportRect)
  /\ w.airportRect = RectOfPos(LastCall.line.pos)
  /\ w.sink = <<>>

\* the runway ends written by the call made last
EmittedEnds == Written(w, "runway_end")[1].values

\* the ends of a list that have an approach indicator
EndsWithVasi(ends) == {i \in 1..Len(ends) : ends[i].left_vasi_type # ""}

(* C37: the num_runway_end_vasi value written at finalize is the number   *)
(* of the runway end records written with it that have an approach       *)
(* indicator type, for every sequence of runway and indicator rows, also  *)
(* when several indicator rows match the same runway end.                 *)
C37_VasiCountIsEndsWithVasi ==
  FinalizesWritten =>
    EmittedAirport.num_runway_end_vasi = Cardinality(EndsWithVasi(EmittedEnds))

\* the value written is the number of indicator rows matched in the block
C37_VasiCountIsRowsMatched ==
  (IsRow(LastCall, {"LIGHTING_OBJECT"}) /\ ~Before.ignoringAirport) =>
    w.numRunwayEndVasi
      = Before.numRunwayEndVasi
        + (IF LastCall.line.type \notin {0, 6}
              /\ ChosenEnd(Before.runwayEndRecords, LastCall.line) # 0 THEN 1 ELSE 0)

(* C38: a water runway row never gives a runway record with a shoulder    *)
(* surface, whatever its runway numbers are; the shoulder comes only from *)
(* the shoulder field of a land runway row.                               *)
C38_NoShoulderOnWater ==
  BindsRunway =>
    LET line == LastCall.line
        runway == Written(w, "runway")[1].values
    IN IF line.code = "WATER_RUNWAY"
       THEN runway.shoulder = ""
       ELSE runway.shoulder = (CASE line.shoulder = 1 -> "A"
                                 [] line.shoulder = 2 -> "C"
                                 [] OTHER -> "")

\* the shoulder of a land runway row is that of its shoulder field
C38_LandShoulderOfField ==
  (BindsRunway /\ LastCall.line.code = "LAND_RUNWAY") => C38_NoShoulderOnWater

\* the ids of the runway ends written by the call made last
EmittedEndIds ==
  IF Written(w, "runway_end") = <<>> THEN {}
  ELSE {EmittedEnds[i].runway_end_id : i \in 1..Len(EmittedEnds)}

\* the runway records written by the calls since the reset before the call made last
RunwaysSinceReset ==
  UNION {{Written(StateAfter(j), "runway")[i].values :
            i \in 1..Len(Written(StateAfter(j), "runway"))} :
         j \in (LastResetFrom(Len(input) - 1) + 1)..(Len(input) - 1)}

(* C39: every runway record written has both of its runway end records    *)
(* written by the time the session is idle again (at the next header row  *)
(* or finish()), for every sequence of rows, also for runway rows read    *)
(* while the session is idle, before any header row.                      *)
C39_RunwayEndsFollowRunway ==
  Finalizes =>
    \A runway \in RunwaysSinceReset :
      /\ runway.primary_end_id \in EmittedEndIds
      /\ runway.secondary_end_id \in EmittedEndIds

\* the runway records of a block that is written have their ends written at its end
C39_EndsOfWrittenBlock ==
  FinalizesWritten => C39_RunwayEndsFollowRunway

\* the rows of the claim: metadata, viewpoint, com and startup location rows
IdleRowCodes == {"METADATA_RECORDS", "AIRPORT_VIEWPOINT", "AIRPORT_LOCATION"} \cup ComCodes

\* call k is such a row read while no airport is written or ignored
IsIdleRow(k) ==
  /\ IsRow(input[k], IdleRowCodes)
  /\ ~StateAfter(k - 1).writingAirport
  /\ ~StateAfter(k - 1).ignoringAirport

\* the calls made, from call k on, without the rows read in the idle state
RECURSIVE WithoutIdleRows(_)
WithoutIdleRows(k) ==
  IF k > Len(input) THEN <<>>
  ELSE IF IsIdleRow(k) THEN WithoutIdleRows(k + 1)
  ELSE <<input[k]>> \o WithoutIdleRows(k + 1)

\* the object after the calls of a sequence
RECURSIVE Run(_, _)
Run(o, calls) == IF calls = <<>> THEN o ELSE Run(Apply(o, calls[1]), Tail(calls))

\* the airport record without its ids
NonIdFields(airport) == [airport EXCEPT !.airport_id = 0, !.file_id = 0]

(* C40: the rows read while the session is idle (before the first header  *)
(* row or after finish()) have no influence on any airport record written *)
(* later: the airport record written by a sequence of calls has the same  *)
(* fields, ids apart, as the one written by the sequence without its      *)
(* idle-state metadata, viewpoint, com and startup location rows.         *)
C40_IdleRowsDoNotInfluenceAirport ==
  FinalizesWritten =>
    LET other == Run(NewWriter, WithoutIdleRows(1))
    IN /\ Written(other, "airport") # <<>>
       /\ NonIdFields(Written(other, "airport")[1].values) = NonIdFields(EmittedAirport)

\* the counters and the rectangle of the airport record do not depend on idle-state rows
C40_IdleRowsDoNotInfluenceCounts ==
  FinalizesWritten =>
    LET other == Written(Run(NewWriter, WithoutIdleRows(1)), "airport")[1].values
    IN /\ other.num_com = EmittedAirport.num_com
       /\ other.rect = EmittedAirport.rect
       /\ other.pos = EmittedAirport.pos
       /\ other.has_avgas = EmittedAirport.has_avgas
       /\ other.has_jetfuel = EmittedAirport.has_jetfuel
       /\ other.has_tower_object = EmittedAirport.has_tower_object

====
